---- MODULE Spec2Model ----
(***************************************************************************)
(* A model of the book editor's core entities.                             *)
(*                                                                         *)
(*   Document         src/src/book_editor/core/document.py                 *)
(*   Template         src/src/book_editor/core/template.py                 *)
(*   TemplateManager  src/src/book_editor/core/template.py                 *)
(*                                                                         *)
(* Python dicts are functions from string keys; dict.update is @@ with the *)
(* updating dict on the left.  Each entity has its own specification       *)
(* (SpecDocument, SpecTemplate, SpecManager): the entities share no state. *)
(***************************************************************************)
EXTENDS Integers, Sequences, FiniteSets, TLC

VARIABLES
    doc,        \* the Document object: content, version, metadata, _history, _history_index
    docOp,      \* the last Document call: its name, its argument, whether it raised
    redoPhase,  \* what has been called since the last undo()
    clock,      \* the wall clock datetime.now() reads
    tpl,        \* the Template objects by the variable that holds them
    heap,       \* the style property dicts the templates' styles refer to
    tplOp,      \* the last Template call: its name, its arguments, whether it raised
    categories, \* TemplateManager.categories
    files,      \* the files of TemplateManager.template_dir, by template name
    mgrOp,      \* the last TemplateManager call: its name, its argument, its result
    sanIn,      \* the name handed to _sanitize_filename
    sanOut,     \* what _sanitize_filename(sanIn) did
    sanAgain,   \* what _sanitize_filename did with its own result
    smFiles,    \* the files of the sanitizing manager's template_dir, by file name
    smOp,       \* the last call of the sanitizing manager: name, argument, result
    ldFile,     \* the file Document.load is called on
    ldOut,      \* what Document.load(ldFile) did
    tvTemplate, \* the attributes of the template validate() is called on
    tvOut,      \* what validate() did
    rnTemplate, \* the template render() is called on
    rnContent,  \* the content handed to render()
    rnOut,      \* what render(rnContent) did
    edCurrent,  \* Editor.current_document: <<>> for None, else <<the document>>
    edFiles,    \* the files of Editor.storage_dir, by document title
    edOp,       \* the last Editor call: its name, its argument, its result
    stFs,       \* the file system StorageManager works on, by resolved path
    stOp,       \* the last StorageManager call: name, argument, result, paths touched
    cmp,        \* the EditorComponent object
    cmpOp,      \* the last EditorComponent call: name, content before it, call before it
    ce,         \* the chapter Editor object and the chapters of its book
    ceNextId,   \* the identity of the next Chapter object
    ceOp,       \* the last chapter Editor call: its name and its result
    dmFiles,    \* the *.json files of DocumentManager.storage_dir, by stem
    dmSaved,    \* the document ids saved and not deleted since
    dmOp        \* the last DocumentManager call: its name, its result, its value

docVars == <<doc, docOp, redoPhase, clock>>

tplVars == <<tpl, heap, tplOp>>

mgrVars == <<categories, files, mgrOp>>

sanVars == <<sanIn, sanOut, sanAgain>>

smVars == <<smFiles, smOp>>

ldVars == <<ldFile, ldOut>>

tvVars == <<tvTemplate, tvOut>>

rnVars == <<rnTemplate, rnContent, rnOut>>

edVars == <<edCurrent, edFiles, edOp>>

stVars == <<stFs, stOp>>

cmpVars == <<cmp, cmpOp>>

ceVars == <<ce, ceNextId, ceOp>>

dmVars == <<dmFiles, dmSaved, dmOp>>

(* The variables of the sections that follow the TemplateManager *)
otherVars == <<sanVars, smVars, ldVars, tvVars, rnVars, edVars, stVars, cmpVars, ceVars,
               dmVars>>

(* What the calls of one section leave alone *)
exceptSan == <<docVars, tplVars, mgrVars, smVars, ldVars, tvVars, rnVars, edVars,
               stVars, cmpVars, ceVars, dmVars>>

exceptSm == <<docVars, tplVars, mgrVars, sanVars, ldVars, tvVars, rnVars, edVars,
              stVars, cmpVars, ceVars, dmVars>>

exceptLd == <<docVars, tplVars, mgrVars, sanVars, smVars, tvVars, rnVars, edVars,
              stVars, cmpVars, ceVars, dmVars>>

exceptTv == <<docVars, tplVars, mgrVars, sanVars, smVars, ldVars, rnVars, edVars,
              stVars, cmpVars, ceVars, dmVars>>

exceptRn == <<docVars, tplVars, mgrVars, sanVars, smVars, ldVars, tvVars, edVars,
              stVars, cmpVars, ceVars, dmVars>>

exceptEd == <<docVars, tplVars, mgrVars, sanVars, smVars, ldVars, tvVars, rnVars,
              stVars, cmpVars, ceVars, dmVars>>

exceptSt == <<docVars, tplVars, mgrVars, sanVars, smVars, ldVars, tvVars, rnVars,
              edVars, cmpVars, ceVars, dmVars>>

exceptCmp == <<docVars, tplVars, mgrVars, sanVars, smVars, ldVars, tvVars, rnVars,
               edVars, stVars, ceVars, dmVars>>

exceptCe == <<docVars, tplVars, mgrVars, sanVars, smVars, ldVars, tvVars, rnVars,
              edVars, stVars, cmpVars, dmVars>>

exceptDm == <<docVars, tplVars, mgrVars, sanVars, smVars, ldVars, tvVars, rnVars,
              edVars, stVars, cmpVars, ceVars>>

vars == <<doc, docOp, redoPhase, clock, tpl, heap, tplOp, categories, files, mgrOp,
          sanIn, sanOut, sanAgain, smFiles, smOp, ldFile, ldOut, tvTemplate, tvOut,
          rnTemplate, rnContent, rnOut, edCurrent, edFiles, edOp, stFs, stOp, cmp,
          cmpOp, ce, ceNextId, ceOp, dmFiles, dmSaved, dmOp>>

----------------------------------------------------------------------------
(* Bounds and input sets *)

MaxTime == 1
MaxHistory == 3
MaxVersion == 4
MaxRefs == 5
MaxLayouts == 2

Texts == {"a", "b"}
Titles == {"T", "U"}
Authors == {"A"}

EmptyDict == [k \in {} |-> 0]

(* datetime.isoformat() and datetime.fromisoformat(): a datetime is a tick *)
(* count, its ISO form a string value of its own type.                      *)
isoformat(t) == [fmt |-> "iso", t |-> t]
BadIso == [fmt |-> "bad", t |-> 0]
IsIso(s) == s.fmt = "iso"
fromisoformat(s) == s.t

(* dict.get(key, default) *)
Get(d, k, default) == IF k \in DOMAIN d THEN d[k] ELSE default

(* Python truthiness of a string *)
Truthy(s) == s # ""

----------------------------------------------------------------------------
(* Document *)

(* Document.__init__: the object built when title and author are non-empty *)
Document_init(title, author, content, now1, now2) ==
    [content |-> content,
     version |-> 1,
     metadata |-> [title |-> title, author |-> author,
                   created_at |-> now1, updated_at |-> now2, version |-> 1],
     history |-> <<content>>,
     history_index |-> 0]

Document_init_raises(title, author) == ~Truthy(title) \/ ~Truthy(author)

Document_set_content_raises(content) == ~Truthy(content)

Document_set_content_always_bumps(d, content, now) ==
    [d EXCEPT !.content = content,
              !.version = d.version + 1,
              !.metadata = [updated_at |-> now, version |-> d.version + 1] @@ d.metadata,
              !.history = Append(SubSeq(d.history, 1, d.history_index + 1), content),
              !.history_index = d.history_index + 1]

Document_set_content_keeps_future(d, content, now) ==
    IF content # d.content
    THEN [d EXCEPT !.content = content,
                   !.version = d.version + 1,
                   !.metadata = [updated_at |-> now, version |-> d.version + 1] @@ d.metadata,
                   !.history = SubSeq(d.history, 1, d.history_index + 1) \o <<content>>
                               \o SubSeq(d.history, d.history_index + 2, Len(d.history)),
                   !.history_index = d.history_index + 1]
    ELSE d

(* Document.set_content, past its empty-content check *)
Document_set_content(d, content, now) ==
    IF content # d.content
    THEN LET h == Append(SubSeq(d.history, 1, d.history_index + 1), content)
         IN [d EXCEPT !.content = content,
                      !.version = d.version + 1,
                      !.metadata = [updated_at |-> now, version |-> d.version + 1] @@ d.metadata,
                      !.history = h,
                      !.history_index = Len(h) - 1]
    ELSE d

Document_update_metadata_raises(fields) ==
    \/ "title" \in DOMAIN fields /\ ~Truthy(fields["title"])
    \/ "author" \in DOMAIN fields /\ ~Truthy(fields["author"])

Document_update_metadata_always_bumps(d, fields, now) ==
    [d EXCEPT !.version = d.version + 1,
              !.metadata = [updated_at |-> now, version |-> d.version + 1]
                           @@ fields @@ d.metadata]

(* Document.update_metadata, past its empty title/author checks *)
Document_update_metadata(d, fields, now) ==
    LET old_metadata == d.metadata
        merged == fields @@ d.metadata
    IN IF merged # old_metadata
       THEN [d EXCEPT !.version = d.version + 1,
                      !.metadata = [updated_at |-> now, version |-> d.version + 1] @@ merged]
       ELSE [d EXCEPT !.metadata = merged]

Document_undo_keeps_version(d, now) ==
    IF d.history_index > 0
    THEN [d EXCEPT !.history_index = d.history_index - 1,
                   !.content = d.history[d.history_index],
                   !.metadata = [updated_at |-> now] @@ d.metadata]
    ELSE d

(* Document.undo; history is 1-based here, _history is 0-based in the code *)
Document_undo(d, now) ==
    IF d.history_index > 0
    THEN [d EXCEPT !.history_index = d.history_index - 1,
                   !.content = d.history[d.history_index],
                   !.version = d.version - 1,
                   !.metadata = [updated_at |-> now, version |-> d.version - 1] @@ d.metadata]
    ELSE d

(* Document.redo *)
Document_redo(d, now) ==
    IF d.history_index < Len(d.history) - 1
    THEN [d EXCEPT !.history_index = d.history_index + 1,
                   !.content = d.history[d.history_index + 2],
                   !.version = d.version + 1,
                   !.metadata = [updated_at |-> now, version |-> d.version + 1] @@ d.metadata]
    ELSE d

(* Document.to_dict *)
Document_to_dict(d) ==
    [content |-> d.content,
     metadata |-> [created_at |-> isoformat(d.metadata["created_at"]),
                   updated_at |-> isoformat(d.metadata["updated_at"])] @@ d.metadata]

(* Document.from_dict raises ValueError; data is a JSON value [t, v] *)
Document_from_dict_raises(data) ==
    \/ data.t # "obj"
    \/ "metadata" \notin DOMAIN data.v
    \/ "title" \notin DOMAIN data.v["metadata"]
    \/ "author" \notin DOMAIN data.v["metadata"]
    \/ Document_init_raises(data.v["metadata"]["title"], data.v["metadata"]["author"])
    \/ "created_at" \in DOMAIN data.v["metadata"] /\ ~IsIso(data.v["metadata"]["created_at"])
    \/ "updated_at" \in DOMAIN data.v["metadata"] /\ ~IsIso(data.v["metadata"]["updated_at"])

(* Document.from_dict, when it does not raise *)
Document_from_dict(data, now1, now2) ==
    LET md == data.v["metadata"]
        fresh == Document_init(md["title"], md["author"], "", now1, now2)
        content == Get(data.v, "content", "")
        version == Get(md, "version", 1)
        created == IF "created_at" \in DOMAIN md
                   THEN fromisoformat(md["created_at"]) ELSE now1
        updated == IF "updated_at" \in DOMAIN md
                   THEN fromisoformat(md["updated_at"]) ELSE now2
    IN [content |-> content,
        version |-> version,
        metadata |-> [version |-> version, created_at |-> created, updated_at |-> updated]
                     @@ fresh.metadata,
        history |-> <<content>>,
        history_index |-> 0]

----------------------------------------------------------------------------
(* Document: the calls a client makes *)

Obj(f) == [t |-> "obj", v |-> f]
Str(x) == [t |-> "str", v |-> x]

(* Arguments of update_metadata *)
MetadataFields ==
    {[title |-> "U"], [title |-> "T"], [title |-> ""], [author |-> ""],
     [title |-> "U", author |-> "A"], [genre |-> "x"], [version |-> 0]}

(* Arguments of from_dict *)
DictInputs ==
    {Str("not a dict"), Obj(EmptyDict),
     Obj([metadata |-> [title |-> "T"]]),
     Obj([metadata |-> [title |-> "", author |-> "A"]]),
     Obj([metadata |-> [title |-> "T", author |-> "A"]]),
     Obj([content |-> "a",
          metadata |-> [title |-> "T", author |-> "A", created_at |-> BadIso]])}
    \cup {Obj([content |-> "a",
               metadata |-> [title |-> "T", author |-> "A", version |-> v,
                             created_at |-> isoformat(0), updated_at |-> isoformat(1)]])
          : v \in {0, 1, 2}}

Called(op, arg, raised) == [op |-> op, arg |-> arg, raised |-> raised]

(* doc = Document(title, author, content) *)
DocNew(title, author, content) ==
    /\ UNCHANGED <<tplVars, mgrVars, otherVars>>
    /\ docOp' = Called("init", "", Document_init_raises(title, author))
    /\ IF Document_init_raises(title, author)
       THEN UNCHANGED <<doc, redoPhase, clock>>
       ELSE \E now1 \in clock..MaxTime : \E now2 \in now1..MaxTime :
               /\ doc' = Document_init(title, author, content, now1, now2)
               /\ redoPhase' = "none"
               /\ clock' = now2

(* doc.set_content(content) *)
DocSetContent(content) ==
    /\ UNCHANGED <<tplVars, mgrVars, otherVars>>
    /\ docOp' = Called("set_content", content, Document_set_content_raises(content))
    /\ IF Document_set_content_raises(content)
       THEN UNCHANGED <<doc, redoPhase, clock>>
       ELSE IF content = doc.content
       THEN /\ doc' = Document_set_content(doc, content, clock)
            /\ redoPhase' = IF redoPhase = "undone" THEN "set_same" ELSE redoPhase
            /\ clock' = clock
       ELSE /\ doc.history_index + 2 <= MaxHistory
            /\ doc.version < MaxVersion
            /\ \E now \in clock..MaxTime :
                  /\ doc' = Document_set_content(doc, content, now)
                  /\ clock' = now
            /\ redoPhase' = IF redoPhase = "none" THEN "none" ELSE "set_new"

(* doc.update_metadata(fields) *)
DocUpdateMetadata(fields) ==
    /\ UNCHANGED <<tplVars, mgrVars, otherVars>>
    /\ docOp' = Called("update_metadata", fields, Document_update_metadata_raises(fields))
    /\ UNCHANGED redoPhase
    /\ IF Document_update_metadata_raises(fields)
       THEN UNCHANGED <<doc, clock>>
       ELSE IF fields @@ doc.metadata = doc.metadata
       THEN /\ doc' = Document_update_metadata(doc, fields, clock)
            /\ clock' = clock
       ELSE /\ doc.version < MaxVersion
            /\ \E now \in clock..MaxTime :
                  /\ doc' = Document_update_metadata(doc, fields, now)
                  /\ clock' = now

(* doc.undo() *)
DocUndo ==
    /\ UNCHANGED <<tplVars, mgrVars, otherVars>>
    /\ docOp' = Called("undo", "", FALSE)
    /\ redoPhase' = "undone"
    /\ IF doc.history_index > 0
       THEN \E now \in clock..MaxTime :
               /\ doc' = Document_undo(doc, now)
               /\ clock' = now
       ELSE /\ doc' = Document_undo(doc, clock)
            /\ clock' = clock

(* doc.redo() *)
DocRedo ==
    /\ UNCHANGED <<tplVars, mgrVars, otherVars>>
    /\ docOp' = Called("redo", "", FALSE)
    /\ UNCHANGED redoPhase
    /\ IF doc.history_index < Len(doc.history) - 1
       THEN /\ doc.version < MaxVersion
            /\ \E now \in clock..MaxTime :
                  /\ doc' = Document_redo(doc, now)
                  /\ clock' = now
       ELSE /\ doc' = Document_redo(doc, clock)
            /\ clock' = clock

(* doc = Document.from_dict(data) *)
DocFromDict(data) ==
    /\ UNCHANGED <<tplVars, mgrVars, otherVars>>
    /\ docOp' = Called("from_dict", data, Document_from_dict_raises(data))
    /\ IF Document_from_dict_raises(data)
       THEN UNCHANGED <<doc, redoPhase, clock>>
       ELSE \E now1 \in clock..MaxTime : \E now2 \in now1..MaxTime :
               /\ doc' = Document_from_dict(data, now1, now2)
               /\ redoPhase' = "none"
               /\ clock' = now2

DocInit ==
    /\ clock = 0
    /\ doc = Document_init("T", "A", "", 0, 0)
    /\ docOp = Called("init", "", FALSE)
    /\ redoPhase = "none"

DocNext ==
    \/ \E title \in Titles \cup {""}, author \in Authors \cup {""}, content \in Texts \cup {""} :
          DocNew(title, author, content)
    \/ \E content \in Texts \cup {""} : DocSetContent(content)
    \/ \E fields \in MetadataFields : DocUpdateMetadata(fields)
    \/ DocUndo
    \/ DocRedo
    \/ \E data \in DictInputs : DocFromDict(data)


----------------------------------------------------------------------------
(* Template *)

VALID_FORMATS == {"markdown", "html", "text"}

TemplateIds == {"A", "B"}
Refs == 1..MaxRefs

(* A style property dict lives in a heap cell: two templates may hold the  *)
(* same dict object.  A cell no template refers to is garbage.             *)
Cell(props) == [used |-> TRUE, v |-> props]
FreeCell == [used |-> FALSE, v |-> EmptyDict]

RefsOf(t) == UNION {{t.styles[ty][n] : n \in DOMAIN t.styles[ty]} : ty \in DOMAIN t.styles}

FreeRefs(st, except) ==
    Refs \ UNION {RefsOf(st.tpl[i]) : i \in TemplateIds \ except}

Collect(st) ==
    [tpl |-> st.tpl,
     heap |-> [r \in Refs |-> IF r \in FreeRefs(st, {}) THEN FreeCell ELSE st.heap[r]]]

(* The styles of a template as plain values: {type: {name: {property: value}}} *)
StylesValue(h, t) ==
    [ty \in DOMAIN t.styles |-> [n \in DOMAIN t.styles[ty] |-> h[t.styles[ty][n]].v]]

DefaultMetadata == [description |-> "", tags |-> <<>>, format |-> "markdown"]

DefaultStyles ==
    [borders |-> [classic |-> ("border" :> "2px solid #8B4513")
                              @@ ("border-radius" :> "8px")
                              @@ ("background-color" :> "#FFF8DC")],
     fonts |-> [default |-> ("font-family" :> "Courier New")
                            @@ ("font-size" :> "12pt")
                            @@ ("line-height" :> "2")
                            @@ ("margin" :> "2.54cm")]]

DefaultLayouts ==
    <<("font-family" :> "Courier New") @@ ("font-size" :> "12pt")
      @@ ("line-height" :> "2") @@ ("margin" :> "2.54cm")>>

Template_init_raises(name, category) == ~Truthy(name) \/ ~Truthy(category)

(* Template.validate raises ValueError.  metadata, styles and layouts are  *)
(* a dict, a dict and a list in every state of this model, and so are tags. *)
Template_validate_raises(name, category, metadata) ==
    \/ ~Truthy(name)
    \/ ~Truthy(category)
    \/ "format" \notin DOMAIN metadata
    \/ metadata["format"] \notin VALID_FORMATS

(* Template.to_dict, when validate() passes *)
Template_to_dict(h, t) ==
    [name |-> t.name,
     category |-> t.category,
     metadata |-> t.metadata,
     styles |-> StylesValue(h, t),
     layouts |-> t.layouts]

Template_from_dict_raises(data) ==
    \/ data.t # "obj"
    \/ "name" \notin DOMAIN data.v
    \/ "category" \notin DOMAIN data.v
    \/ Template_init_raises(data.v["name"], data.v["category"])
    \/ Template_validate_raises(data.v["name"], data.v["category"],
                                Get(data.v, "metadata", DefaultMetadata))

Template_from_dict_drops_layouts(data) ==
    [name |-> data.v["name"],
     category |-> data.v["category"],
     metadata |-> Get(data.v, "metadata", DefaultMetadata),
     styles |-> Get(data.v, "styles", DefaultStyles),
     layouts |-> DefaultLayouts]

(* Template.from_dict, when it does not raise: the new template's name,    *)
(* category, metadata, styles (as values) and layouts                     *)
Template_from_dict(data) ==
    [name |-> data.v["name"],
     category |-> data.v["category"],
     metadata |-> Get(data.v, "metadata", DefaultMetadata),
     styles |-> Get(data.v, "styles", DefaultStyles),
     layouts |-> Get(data.v, "layouts", DefaultLayouts)]

Template_add_style_raises(style_type, style_name, style_data) ==
    \/ ~Truthy(style_type)
    \/ ~Truthy(style_name)
    \/ style_data.t # "obj"

(* Whether add_style creates the style's property dict *)
AddsStyle(t, style_type, style_name) ==
    \/ style_type \notin DOMAIN t.styles
    \/ style_name \notin DOMAIN t.styles[style_type]

(* Template.add_style, past its argument checks *)
Template_add_style(st, a, style_type, style_name, style_data) ==
    LET t == st.tpl[a]
        styles1 == IF style_type \in DOMAIN t.styles
                   THEN t.styles
                   ELSE (style_type :> EmptyDict) @@ t.styles
        isNew == style_name \notin DOMAIN styles1[style_type]
        free == FreeRefs(st, {})
        r == IF isNew
             THEN CHOOSE x \in free : \A y \in free : x <= y
             ELSE styles1[style_type][style_name]
        old == IF isNew THEN EmptyDict ELSE st.heap[r].v
        styles2 == [styles1 EXCEPT ![style_type] = (style_name :> r) @@ @]
    IN Collect([tpl |-> [st.tpl EXCEPT ![a].styles = styles2],
                heap |-> [st.heap EXCEPT ![r] = Cell(style_data.v @@ old)]])

Template_add_layout_raises(layout) ==
    \/ layout.t # "obj"
    \/ layout.v = EmptyDict

(* Template.add_layout, past its argument checks *)
Template_add_layout(st, a, layout) ==
    [st EXCEPT !.tpl[a].layouts = Append(@, layout.v)]

Template_merge_styles_self_wins(self_styles, source_styles) ==
    [ty \in DOMAIN self_styles \cup DOMAIN source_styles |->
        IF ty \in DOMAIN source_styles
        THEN (IF ty \in DOMAIN self_styles THEN self_styles[ty] ELSE EmptyDict)
             @@ source_styles[ty]
        ELSE self_styles[ty]]

(* Template.merge_styles: the style dicts of source become styles of self *)
Template_merge_styles(self_styles, source_styles) ==
    [ty \in DOMAIN self_styles \cup DOMAIN source_styles |->
        IF ty \in DOMAIN source_styles
        THEN source_styles[ty]
             @@ (IF ty \in DOMAIN self_styles THEN self_styles[ty] ELSE EmptyDict)
        ELSE self_styles[ty]]

(* Template.merge_layouts: copy.deepcopy of the source's layouts is appended *)
Template_merge_layouts(self_layouts, source_layouts) == self_layouts \o source_layouts

(* Template.merge *)
Template_merge(st, a, b) ==
    LET self == st.tpl[a]
        source == st.tpl[b]
    IN Collect([st EXCEPT
                  !.tpl[a].metadata = source.metadata @@ self.metadata,
                  !.tpl[a].styles = Template_merge_styles(self.styles, source.styles),
                  !.tpl[a].layouts = Template_merge_layouts(self.layouts, source.layouts)])

----------------------------------------------------------------------------
(* Template: the calls a client makes *)

(* Arguments of add_style: (style_type, style_name) and style_data *)
StyleKeyInputs ==
    {<<"borders", "classic">>, <<"borders", "custom">>, <<"text", "classic">>,
     <<"", "classic">>, <<"borders", "">>}
StyleDataInputs == {Obj([color |-> "red"]), Str("red")}

(* Arguments of add_layout; the first is PAGE_LAYOUTS["manuscript"] *)
FormatInputs == {"html", "invalid"}

LayoutInputs == {Obj(DefaultLayouts[1]), Obj(EmptyDict), Str("1cm")}

St == [tpl |-> tpl, heap |-> heap]

Becomes(st) == tpl' = st.tpl /\ heap' = st.heap

(* tpl[a].add_style(style_type, style_name, style_data) *)
TplAddStyle(a, style_type, style_name, style_data) ==
    LET raises == Template_add_style_raises(style_type, style_name, style_data)
    IN /\ UNCHANGED <<docVars, mgrVars, otherVars>>
       /\ tplOp' = [op |-> "add_style", a |-> a, b |-> a, raised |-> raises]
       /\ IF raises
          THEN UNCHANGED <<tpl, heap>>
          ELSE /\ AddsStyle(tpl[a], style_type, style_name) => FreeRefs(St, {}) # {}
               /\ Becomes(Template_add_style(St, a, style_type, style_name, style_data))

(* tpl[a].add_layout(layout) *)
TplAddLayout(a, layout) ==
    LET raises == Template_add_layout_raises(layout)
    IN /\ UNCHANGED <<docVars, mgrVars, otherVars>>
       /\ tplOp' = [op |-> "add_layout", a |-> a, b |-> a, raised |-> raises]
       /\ IF raises
          THEN UNCHANGED <<tpl, heap>>
          ELSE /\ Len(tpl[a].layouts) < MaxLayouts
               /\ Becomes(Template_add_layout(St, a, layout))

(* tpl[a].merge(tpl[b]) *)
TplMerge(a, b) ==
    /\ Len(tpl[a].layouts) + Len(tpl[b].layouts) <= MaxLayouts
    /\ UNCHANGED <<docVars, mgrVars, otherVars>>
    /\ tplOp' = [op |-> "merge", a |-> a, b |-> b, raised |-> FALSE]
    /\ Becomes(Template_merge(St, a, b))

(* tpl[a].metadata["format"] = format *)
TplSetFormat(a, format) ==
    /\ tplOp' = [op |-> "set_format", a |-> a, b |-> a, raised |-> FALSE]
    /\ tpl' = [tpl EXCEPT ![a].metadata = ("format" :> format) @@ @]
    /\ UNCHANGED heap
    /\ UNCHANGED <<docVars, mgrVars, otherVars>>

(* Template(name, category) *)
Template_init(name, category) ==
    [name |-> name, category |-> category, metadata |-> DefaultMetadata,
     styles |-> DefaultStyles, layouts |-> DefaultLayouts]

TplInit ==
    /\ tplOp = [op |-> "init", a |-> "A", b |-> "A", raised |-> FALSE]
    /\ tpl = [i \in TemplateIds |->
                [Template_init(IF i = "A" THEN "Base" ELSE "Other", "general")
                   EXCEPT !.styles = IF i = "A"
                                     THEN [borders |-> [classic |-> 1], fonts |-> [default |-> 2]]
                                     ELSE [borders |-> [classic |-> 3], fonts |-> [default |-> 4]]]]
    /\ heap = [r \in Refs |->
                 IF r \in {1, 3} THEN Cell(DefaultStyles["borders"]["classic"])
                 ELSE IF r \in {2, 4} THEN Cell(DefaultStyles["fonts"]["default"])
                 ELSE FreeCell]

TplNext ==
    \/ \E a \in TemplateIds, key \in StyleKeyInputs, data \in StyleDataInputs :
          TplAddStyle(a, key[1], key[2], data)
    \/ \E a \in TemplateIds, layout \in LayoutInputs : TplAddLayout(a, layout)
    \/ \E a \in TemplateIds, b \in TemplateIds : TplMerge(a, b)
    \/ \E a \in TemplateIds, format \in FormatInputs : TplSetFormat(a, format)

----------------------------------------------------------------------------
(* TemplateManager (template.py) *)

(* A file of template_dir: absent, or holding the JSON text json.dump      *)
(* wrote, or empty (opened for writing and nothing written), or cut short  *)
(* by a failed write.                                                      *)
Absent == [kind |-> "absent", data |-> EmptyDict]
EmptyFile == [kind |-> "empty", data |-> EmptyDict]
PartialFile == [kind |-> "partial", data |-> EmptyDict]
JsonFile(data) == [kind |-> "json", data |-> data]

(* A JSON text that some other program put in template_dir: its parsed     *)
(* value, tagged with its JSON type.                                       *)
ForeignFile(json) == [kind |-> "foreign", data |-> json]

Arr(s) == [t |-> "arr", v |-> s]

(* template_dir / f"{name}.json": pathlib splits the name at each "/", so  *)
(* the file of "Part/One" is One.json in the subdirectory Part.            *)
PathParts ==
    ("Guide" :> <<"Guide">>) @@ ("Novel" :> <<"Novel">>) @@ ("Part/One" :> <<"Part", "One">>)

(* The directories under template_dir, as paths relative to it: __init__   *)
(* makes template_dir itself and no method of the manager makes another.   *)
Directories == {<<>>}

(* open(path, "w") raises FileNotFoundError, an OSError, when the          *)
(* directory of the path does not exist.                                   *)
ParentExists(name) == SubSeq(PathParts[name], 1, Len(PathParts[name]) - 1) \in Directories

(* Template.to_dict of a template given by value *)
TemplateValue_to_dict(template) ==
    [name |-> template.name, category |-> template.category,
     metadata |-> template.metadata, styles |-> template.styles,
     layouts |-> template.layouts]

(* TemplateManager.add_category *)
TemplateManager_add_category(cats, category) ==
    IF ~Truthy(category) \/ category \in cats
    THEN [result |-> "False", categories |-> cats]
    ELSE [result |-> "True", categories |-> cats \cup {category}]

TemplateManager_save_template_ungated(cats, fs, template, io) ==
    IF ~Truthy(template.name) \/ ~Truthy(template.category)
    THEN [result |-> "False", files |-> fs]
    ELSE IF io = "open_fails" \/ ~ParentExists(template.name)
    THEN [result |-> "False", files |-> fs]
    ELSE IF Template_validate_raises(template.name, template.category, template.metadata)
    THEN [result |-> "ValueError", files |-> [fs EXCEPT ![template.name] = EmptyFile]]
    ELSE IF io = "write_fails"
    THEN [result |-> "False", files |-> [fs EXCEPT ![template.name] = PartialFile]]
    ELSE [result |-> "True",
          files |-> [fs EXCEPT ![template.name] = JsonFile(TemplateValue_to_dict(template))]]

(* TemplateManager.save_template.  open(path, "w") creates or empties the  *)
(* file before to_dict() runs; to_dict() raises ValueError when validate() *)
(* fails, which the except clause (OSError, JSONDecodeError) lets through. *)
TemplateManager_save_template(cats, fs, template, io) ==
    IF ~Truthy(template.name) \/ ~Truthy(template.category)
    THEN [result |-> "False", files |-> fs]
    ELSE IF template.category \notin cats
    THEN [result |-> "False", files |-> fs]
    ELSE IF io = "open_fails" \/ ~ParentExists(template.name)
    THEN [result |-> "False", files |-> fs]
    ELSE IF Template_validate_raises(template.name, template.category, template.metadata)
    THEN [result |-> "ValueError", files |-> [fs EXCEPT ![template.name] = EmptyFile]]
    ELSE IF io = "write_fails"
    THEN [result |-> "False", files |-> [fs EXCEPT ![template.name] = PartialFile]]
    ELSE [result |-> "True",
          files |-> [fs EXCEPT ![template.name] = JsonFile(TemplateValue_to_dict(template))]]

(* json.load of a file json.dump wrote: the template dict, each value     *)
(* carrying its JSON type.                                                 *)
TemplateJson(d) ==
    Obj([name |-> Str(d.name), category |-> Str(d.category), metadata |-> Obj(d.metadata),
         styles |-> Obj(d.styles), layouts |-> Arr(d.layouts)])

(* json.load(f): raises JSONDecodeError on an empty or cut-short text *)
json_load_raises(f) == f.kind \in {"empty", "partial"}

json_load(f) == IF f.kind = "json" THEN TemplateJson(f.data) ELSE f.data

Num(n) == [t |-> "num", v |-> n]
Null == [t |-> "null", v |-> 0]

(* Python truthiness of a JSON value *)
PyTruthy(j) ==
    IF j.t = "str" THEN j.v # ""
    ELSE IF j.t = "arr" THEN j.v # <<>>
    ELSE IF j.t = "num" THEN j.v # 0
    ELSE IF j.t = "null" THEN FALSE
    ELSE DOMAIN j.v # {}

(* str.lower() of the strings of the model *)
Lower(x) ==
    IF x = "Guide" THEN "guide"
    ELSE IF x = "Novel" THEN "novel"
    ELSE IF x = "Part/One" THEN "part/one"
    ELSE x

(* query in text: of the lower-case strings of the model none is a proper  *)
(* substring of another, except the empty string, which is in every string *)
Contains(query, text) == query = "" \/ query = text

None == [result |-> "None", value |-> EmptyDict]
Raises(exception) == [result |-> exception, value |-> EmptyDict]

(* The Template object get_template and search_templates build from data *)
LoadedTemplate(data) ==
    [name |-> data.name, category |-> data.category, metadata |-> data.metadata,
     styles |-> Get(data, "styles", Obj(EmptyDict)),
     layouts |-> Get(data, "layouts", Arr(<<>>))]

(* TemplateManager.get_template.  The except clause names OSError,         *)
(* JSONDecodeError and KeyError: the TypeError of data["name"] on a JSON   *)
(* value that is not a mapping and the ValueError of Template("", ...)     *)
(* pass through it.                                                        *)
TemplateManager_get_template(fs, name) ==
    LET f == fs[name]
        data == json_load(f)
    IN IF f.kind = "absent" THEN None
       ELSE IF json_load_raises(f) THEN None
       ELSE IF data.t # "obj" THEN Raises("TypeError")
       ELSE IF "name" \notin DOMAIN data.v \/ "category" \notin DOMAIN data.v THEN None
       ELSE IF ~PyTruthy(data.v.name) \/ ~PyTruthy(data.v.category) THEN Raises("ValueError")
       ELSE IF "metadata" \notin DOMAIN data.v THEN None
       ELSE [result |-> "template", value |-> LoadedTemplate(data.v)]

(* TemplateManager.load_template *)
TemplateManager_load_template(fs, name) == TemplateManager_get_template(fs, name)

(* template_dir.glob("*.json"): the files directly in template_dir *)
Globbed(fs) == {n \in DOMAIN fs : fs[n].kind # "absent" /\ Len(PathParts[n]) = 1}

(* The argument None of list_templates *)
NoCategory == "<None>"

(* What the body of the loop of list_templates does with one file *)
ListOutcome(f, category) ==
    LET data == json_load(f)
    IN IF json_load_raises(f) THEN "skip"
       ELSE IF data.t # "obj" THEN "TypeError"
       ELSE IF category # NoCategory /\ "category" \notin DOMAIN data.v THEN "skip"
       ELSE IF category # NoCategory
               /\ ~(data.v.category.t = "str" /\ data.v.category.v = category) THEN "drop"
       ELSE IF "name" \notin DOMAIN data.v THEN "skip"
       ELSE "take"

(* TemplateManager.list_templates: the results the call can have.  The     *)
(* list of names is modelled as their set; an exception of the loop body   *)
(* that the except clause does not name ends the call.                     *)
TemplateManager_list_templates(fs, category) ==
    LET raising == {n \in Globbed(fs) : ListOutcome(fs[n], category) \notin {"skip", "drop", "take"}}
        taken == {n \in Globbed(fs) : ListOutcome(fs[n], category) = "take"}
    IN IF raising # {}
       THEN {[result |-> ListOutcome(fs[n], category), value |-> {}] : n \in raising}
       ELSE {[result |-> "list", value |-> {json_load(fs[n]).v.name : n \in taken}]}

(* What the body of the loop of search_templates does with one file *)
SearchOutcome(f, query) ==
    LET data == json_load(f)
        metadata == Get(data.v, "metadata", Obj(EmptyDict))
        description == Lower(Get(metadata.v, "description", ""))
        tags == Get(metadata.v, "tags", <<>>)
    IN IF json_load_raises(f) THEN "skip"
       ELSE IF data.t # "obj" THEN "AttributeError"
       ELSE IF metadata.t # "obj" THEN "AttributeError"
       ELSE IF "name" \notin DOMAIN data.v THEN "skip"
       ELSE IF data.v.name.t # "str" THEN "AttributeError"
       ELSE IF ~(\/ Contains(query, Lower(data.v.name.v))
                 \/ Contains(query, description)
                 \/ \E i \in DOMAIN tags : Contains(query, Lower(tags[i]))) THEN "drop"
       ELSE IF "category" \notin DOMAIN data.v THEN "skip"
       ELSE IF ~PyTruthy(data.v.name) \/ ~PyTruthy(data.v.category) THEN "ValueError"
       ELSE "take"

(* TemplateManager.search_templates: the results the call can have *)
TemplateManager_search_templates(fs, query) ==
    LET q == Lower(query)
        raising == {n \in Globbed(fs) : SearchOutcome(fs[n], q) \notin {"skip", "drop", "take"}}
        taken == {n \in Globbed(fs) : SearchOutcome(fs[n], q) = "take"}
    IN IF raising # {}
       THEN {[result |-> SearchOutcome(fs[n], q), value |-> {}] : n \in raising}
       ELSE {[result |-> "list",
              value |-> {LoadedTemplate(("metadata" :> Get(json_load(fs[n]).v, "metadata",
                                                           Obj(EmptyDict)))
                                        @@ json_load(fs[n]).v) : n \in taken}]}

----------------------------------------------------------------------------
(* TemplateManager: the calls a client makes *)

TemplateNames == {"Guide", "Novel", "Part/One"}
CategoryInputs == {"general", "fiction", "drama", ""}
IoOutcomes == {"ok", "open_fails", "write_fails"}

(* Templates handed to save_template; name and category are attributes a   *)
(* client can also empty after construction.                               *)
TemplateInputs ==
    {[Template_init(n, c) EXCEPT !.metadata = ("format" :> f) @@ @] :
        n \in TemplateNames, c \in CategoryInputs \ {""}, f \in {"markdown", "invalid"}}
    \cup {[Template_init("Guide", "general") EXCEPT !.name = ""],
          [Template_init("Guide", "general") EXCEPT !.category = ""]}

(* manager.add_category(category) *)
MgrAddCategory(category) ==
    LET r == TemplateManager_add_category(categories, category)
    IN /\ categories' = r.categories
       /\ mgrOp' = [op |-> "add_category", arg |-> category, result |-> r.result]
       /\ UNCHANGED files
       /\ UNCHANGED <<docVars, tplVars, otherVars>>

(* manager.save_template(template) *)
MgrSaveTemplate(template, io) ==
    LET r == TemplateManager_save_template(categories, files, template, io)
    IN /\ files' = r.files
       /\ mgrOp' = [op |-> "save_template", arg |-> template, io |-> io, result |-> r.result]
       /\ UNCHANGED categories
       /\ UNCHANGED <<docVars, tplVars, otherVars>>

(* manager.get_template(name) *)
MgrGetTemplate(name) ==
    LET r == TemplateManager_get_template(files, name)
    IN /\ mgrOp' = [op |-> "get_template", arg |-> name, result |-> r.result, value |-> r.value]
       /\ UNCHANGED <<categories, files>>
       /\ UNCHANGED <<docVars, tplVars, otherVars>>

(* manager.load_template(name) *)
MgrLoadTemplate(name) ==
    LET r == TemplateManager_load_template(files, name)
    IN /\ mgrOp' = [op |-> "load_template", arg |-> name, result |-> r.result, value |-> r.value]
       /\ UNCHANGED <<categories, files>>
       /\ UNCHANGED <<docVars, tplVars, otherVars>>

(* manager.list_templates(category) *)
MgrListTemplates(category) ==
    /\ \E r \in TemplateManager_list_templates(files, category) :
          mgrOp' = [op |-> "list_templates", arg |-> category, result |-> r.result,
                    value |-> r.value]
    /\ UNCHANGED <<categories, files>>
    /\ UNCHANGED <<docVars, tplVars, otherVars>>

(* manager.search_templates(query) *)
MgrSearchTemplates(query) ==
    /\ \E r \in TemplateManager_search_templates(files, query) :
          mgrOp' = [op |-> "search_templates", arg |-> query, result |-> r.result,
                    value |-> r.value]
    /\ UNCHANGED <<categories, files>>
    /\ UNCHANGED <<docVars, tplVars, otherVars>>

(* JSON texts other programs leave in template_dir: a list, a template     *)
(* with an empty name, one without a name, one without styles and layouts, *)
(* one whose metadata is a string.                                         *)
ForeignInputs ==
    {Arr(<<>>),
     Obj([name |-> Str(""), category |-> Str("general"), metadata |-> Obj(DefaultMetadata)]),
     Obj([category |-> Str("general")]),
     Obj([name |-> Str("Novel"), category |-> Str("fiction"), metadata |-> Obj(DefaultMetadata)]),
     Obj([name |-> Str("Novel"), category |-> Str("general"), metadata |-> Str("oops")])}

QueryInputs == {"", "Guide", "zzz"}

(* Another program writes a .json file into template_dir *)
MgrForeignWrite(name, json) ==
    /\ Len(PathParts[name]) = 1
    /\ files' = [files EXCEPT ![name] = ForeignFile(json)]
    /\ mgrOp' = [op |-> "foreign_write", arg |-> name, result |-> "True"]
    /\ UNCHANGED categories
    /\ UNCHANGED <<docVars, tplVars, otherVars>>

(* TemplateManager.__init__ on a new directory *)
MgrInit ==
    /\ categories = {"general"}
    /\ files = [n \in TemplateNames |-> Absent]
    /\ mgrOp = [op |-> "init", arg |-> "", result |-> "True"]

MgrNext ==
    \/ \E category \in CategoryInputs : MgrAddCategory(category)
    \/ \E template \in TemplateInputs, io \in IoOutcomes : MgrSaveTemplate(template, io)
    \/ \E name \in TemplateNames : MgrGetTemplate(name)
    \/ \E name \in TemplateNames : MgrLoadTemplate(name)
    \/ \E category \in {NoCategory, "general", "fiction"} : MgrListTemplates(category)
    \/ \E query \in QueryInputs : MgrSearchTemplates(query)
    \/ \E name \in TemplateNames, json \in ForeignInputs : MgrForeignWrite(name, json)

----------------------------------------------------------------------------
(* TemplateManager._sanitize_filename (template_manager.py)                *)
(*                                                                         *)
(* A name is the sequence of its characters.                               *)

MAX_FILENAME_LENGTH == 255

Digits == {"1", "2", "3", "4", "5", "6", "7", "8", "9"}

RESERVED_NAMES ==
    {<<"C", "O", "N">>, <<"P", "R", "N">>, <<"A", "U", "X">>, <<"N", "U", "L">>}
    \cup {<<"C", "O", "M", d>> : d \in Digits}
    \cup {<<"L", "P", "T", d>> : d \in Digits}

(* str.isspace, str.strip() and \s: a space and a tab stand for the        *)
(* whitespace characters                                                   *)
Whitespace == {" ", "\t"}

(* The class [\x00-\x1f\x7f/\\:*?"<>|]; the tab stands for the control     *)
(* characters                                                              *)
InvalidChars == {"\t", "/", "\\", ":", "*", "?", "\"", "<", ">", "|"}

(* The class [/\\:*\s] *)
SplitChars == {"/", "\\", ":", "*"} \cup Whitespace

ToUpper ==
    ("a" :> "A") @@ ("c" :> "C") @@ ("o" :> "O") @@ ("n" :> "N") @@ ("j" :> "J")
    @@ ("s" :> "S") @@ ("x" :> "X") @@ ("y" :> "Y")

(* str.upper() *)
Upper(s) == [i \in DOMAIN s |-> IF s[i] \in DOMAIN ToUpper THEN ToUpper[s[i]] ELSE s[i]]

Min(S) == CHOOSE x \in S : \A y \in S : x <= y
Max(S) == CHOOSE x \in S : \A y \in S : x >= y

(* s.strip(chars) *)
Strip(s, chars) ==
    LET keep == {i \in DOMAIN s : s[i] \notin chars}
    IN IF keep = {} THEN <<>> ELSE SubSeq(s, Min(keep), Max(keep))

(* The characters of s at the positions Keep holds of, in order *)
Pick(s, Keep(_)) ==
    LET idx == SelectSeq([i \in DOMAIN s |-> i], Keep)
    IN [k \in DOMAIN idx |-> s[idx[k]]]

(* re.sub(r'[\x00-\x1f\x7f/\\:*?"<>|]', '_', name) *)
ReplaceInvalid(s) == [i \in DOMAIN s |-> IF s[i] \in InvalidChars THEN "_" ELSE s[i]]

(* '_'.join(part.strip() for part in re.split(r'[/\\:*\s]+', s)            *)
(*          if part.strip()): every run of split characters between two    *)
(* parts becomes one underscore, a run at either end disappears.           *)
SplitJoin(s) ==
    LET sep(i) == s[i] \in SplitChars
        inner(i) == (\E j \in 1..(i - 1) : ~sep(j)) /\ (\E j \in (i + 1)..Len(s) : ~sep(j))
        kept == Pick(s, LAMBDA i : ~sep(i) \/ (inner(i) /\ ~sep(i - 1)))
    IN [k \in DOMAIN kept |-> IF kept[k] \in SplitChars THEN "_" ELSE kept[k]]

(* re.sub(r'\.(?!json$)', '_', s): every dot but the one of a final .json *)
ReplaceDots(s) ==
    [i \in DOMAIN s |->
        IF s[i] = "." /\ SubSeq(s, i + 1, Len(s)) # <<"j", "s", "o", "n">> THEN "_" ELSE s[i]]

(* re.sub(r'_+', '_', s) *)
CollapseUnderscores(s) == Pick(s, LAMBDA i : ~(s[i] = "_" /\ i > 1 /\ s[i - 1] = "_"))

(* if sanitized.upper() in RESERVED_NAMES: sanitized = f"{sanitized}_" *)
EscapeReserved(s) == IF Upper(s) \in RESERVED_NAMES THEN Append(s, "_") ELSE s

Truncate_at_limit(s) == SubSeq(s, 1, Min({Len(s), MAX_FILENAME_LENGTH - 6}))

(* The truncation to max_base_length; rfind counts from 0 and gives -1     *)
(* when there is no underscore.                                            *)
Truncate(s) ==
    LET max_base_length == MAX_FILENAME_LENGTH - 6
        cut == SubSeq(s, 1, max_base_length)
        underscores == {i \in DOMAIN cut : cut[i] = "_"}
        last_underscore == IF underscores = {} THEN -1 ELSE Max(underscores) - 1
    IN IF Len(s) <= max_base_length THEN s
       ELSE IF last_underscore > max_base_length \div 2 THEN SubSeq(cut, 1, last_underscore)
       ELSE SubSeq(cut, 1, max_base_length - 10)

ValueError == [raised |-> TRUE, value |-> <<>>]

(* TemplateManager._sanitize_filename *)
sanitize_filename(name) ==
    IF name = <<>> \/ \A i \in DOMAIN name : name[i] \in Whitespace THEN ValueError
    ELSE IF Strip(name, {"."}) = <<>> THEN ValueError
    ELSE LET sanitized ==
                 Truncate(EscapeReserved(Strip(CollapseUnderscores(ReplaceDots(SplitJoin(
                     ReplaceInvalid(Strip(name, Whitespace))))), {".", "_"})))
         IN IF sanitized = <<>> THEN ValueError
            ELSE [raised |-> FALSE, value |-> sanitized]

----------------------------------------------------------------------------
(* _sanitize_filename: the names it is called with *)

MaxTokens == 3

Tokens ==
    {<<"a">>, <<"_">>, <<".">>, <<" ">>, <<"\t">>, <<"/">>, <<"$">>,
     <<".", "j", "s", "o", "n">>, <<"c", "o", "N">>}

RECURSIVE Concat(_)
Concat(ts) == IF ts = <<>> THEN <<>> ELSE Head(ts) \o Concat(Tail(ts))

Run(c, n) == [i \in 1..n |-> c]

(* Names of up to MaxTokens tokens, the empty name among them *)
ShortNames == {Concat(ts) : ts \in UNION {[1..n -> Tokens] : n \in 0..MaxTokens}}

(* Names around and beyond the length at which truncation sets in *)
LongNames ==
    {pre \o Run("x", n) \o mid \o Run("y", m) \o suf :
        pre \in {<<>>, <<"a", "_">>},
        n \in {119, 125, 245, 248},
        mid \in {<<>>, <<"_">>, <<" ">>, <<"$">>},
        m \in {4, 125, 130},
        suf \in {<<>>, <<".", "j", "s", "o", "n">>, <<"_", "a">>}}

NameInputs == ShortNames \cup LongNames

Pending == [raised |-> FALSE, value |-> <<>>]

(* manager._sanitize_filename(sanIn) *)
SanSanitize ==
    /\ sanOut = Pending
    /\ sanOut' = sanitize_filename(sanIn)
    /\ UNCHANGED <<sanIn, sanAgain>>
    /\ UNCHANGED exceptSan

(* manager._sanitize_filename of the name the first call returned *)
SanSanitizeAgain ==
    /\ sanOut # Pending
    /\ ~sanOut.raised
    /\ sanAgain = Pending
    /\ sanAgain' = sanitize_filename(sanOut.value)
    /\ UNCHANGED <<sanIn, sanOut>>
    /\ UNCHANGED exceptSan

SanIdle == sanOut = Pending /\ sanAgain = Pending

SanInit == sanIn = <<"a">> /\ SanIdle

SanNext == SanSanitize \/ SanSanitizeAgain

----------------------------------------------------------------------------
(* TemplateManager (template_manager.py), the manager that sanitizes names *)

(* name.replace(' ', '_') *)
ReplaceSpaces(name) == [i \in DOMAIN name |-> IF name[i] = " " THEN "_" ELSE name[i]]

(* Path.exists() of template_dir / f"{key}.json": a key with a separator   *)
(* names a file in a subdirectory, and template_dir has none.              *)
PathExists(fs, key) == key \in DOMAIN fs /\ \A i \in DOMAIN key : key[i] # "/"

(* Template.validate() of a template whose name is a character sequence *)
SmValidateRaises(template) ==
    \/ template.name = <<>>
    \/ ~Truthy(template.category)
    \/ template.metadata.format \notin VALID_FORMATS

(* TemplateManager.save_template: validate(), then the file named by the   *)
(* sanitized name is written; both raise ValueError.                       *)
SanitizingManager_save_template(fs, template) ==
    IF SmValidateRaises(template) \/ sanitize_filename(template.name).raised
    THEN [result |-> "ValueError", path |-> <<>>, files |-> fs]
    ELSE LET sanitized_name == sanitize_filename(template.name).value
         IN [result |-> "path", path |-> sanitized_name,
             files |-> (sanitized_name :> TemplateValue_to_dict(template)) @@ fs]

(* TemplateManager.load_template of a file save_template wrote:            *)
(* Template.from_dict of its data                                          *)
SanitizingManager_load_template(fs, key) ==
    IF ~PathExists(fs, key) THEN None
    ELSE [result |-> "template", value |-> fs[key]]

(* TemplateManager.get_template *)
SanitizingManager_get_template(fs, name) ==
    IF name = <<>> THEN None
    ELSE SanitizingManager_load_template(fs, ReplaceSpaces(name))

(* TemplateManager.delete_template *)
SanitizingManager_delete_template(fs, name) ==
    IF name = <<>> THEN [result |-> "False", files |-> fs]
    ELSE IF PathExists(fs, ReplaceSpaces(name))
    THEN [result |-> "True",
          files |-> [k \in DOMAIN fs \ {ReplaceSpaces(name)} |-> fs[k]]]
    ELSE [result |-> "False", files |-> fs]

(* Template names: plain, with a space, with a separator, with a dot, a    *)
(* reserved device name, with a leading space, and one of dots only.       *)
SmNames ==
    {<<"a">>, <<"a", " ", "b">>, <<"a", "/", "b">>, <<"a", ".", "b">>, <<"c", "o", "N">>,
     <<" ", "a">>, <<".">>}

SmTemplates ==
    {Template_init(n, "general") : n \in SmNames}
    \cup {[Template_init(<<"a">>, "general") EXCEPT !.metadata = ("format" :> "invalid") @@ @]}

(* manager.save_template(template) *)
SmSaveTemplate(template) ==
    LET r == SanitizingManager_save_template(smFiles, template)
    IN /\ smFiles' = r.files
       /\ smOp' = [op |-> "save_template", arg |-> template, result |-> r.result,
                   value |-> r.path]
       /\ UNCHANGED exceptSm

(* manager.get_template(name) *)
SmGetTemplate(name) ==
    LET r == SanitizingManager_get_template(smFiles, name)
    IN /\ smOp' = [op |-> "get_template", arg |-> name, result |-> r.result, value |-> r.value]
       /\ UNCHANGED smFiles
       /\ UNCHANGED exceptSm

(* manager.delete_template(name) *)
SmDeleteTemplate(name) ==
    LET r == SanitizingManager_delete_template(smFiles, name)
    IN /\ smFiles' = r.files
       /\ smOp' = [op |-> "delete_template", arg |-> name, result |-> r.result, value |-> <<>>]
       /\ UNCHANGED exceptSm

(* TemplateManager.__init__ on a new directory *)
SmInit ==
    /\ smFiles = EmptyDict
    /\ smOp = [op |-> "init", arg |-> <<>>, result |-> "True", value |-> <<>>]

SmNext ==
    \/ \E template \in SmTemplates : SmSaveTemplate(template)
    \/ \E name \in SmNames \cup {<<>>} : SmGetTemplate(name)
    \/ \E name \in SmNames \cup {<<>>} : SmDeleteTemplate(name)

----------------------------------------------------------------------------
(* Document.load (document.py) *)

(* The file at the path: missing, not JSON, or the JSON value it holds with *)
(* every value carrying its JSON type                                       *)
MissingFile == [kind |-> "missing", data |-> Null]
UnparseableFile == [kind |-> "unparseable", data |-> Null]
ParsedFile(json) == [kind |-> "json", data |-> json]

(* key in value / key not in value: a key of a mapping, an element of a     *)
(* list, a substring of a string; TypeError on a number or null             *)
InRaises(value) == value.t \in {"num", "null"}

In(key, value) ==
    IF value.t = "obj" THEN key \in DOMAIN value.v
    ELSE IF value.t = "arr" THEN \E i \in DOMAIN value.v : value.v[i] = Str(key)
    ELSE Contains(key, value.v)

(* datetime.fromisoformat(value): TypeError unless value is a string,      *)
(* ValueError unless the string is an ISO timestamp                        *)
FromIsoOutcome(md, key) ==
    IF key \notin DOMAIN md.v THEN "ok"
    ELSE IF md.v[key].t # "str" THEN "TypeError"
    ELSE IF ~IsIso(md.v[key].v) THEN "ValueError"
    ELSE "ok"

(* What Document.from_dict does with a JSON value: the exception it raises *)
(* or "ok"                                                                 *)
FromDictOutcome(data) ==
    LET md == data.v["metadata"]
    IN IF data.t # "obj" THEN "ValueError"
       ELSE IF "metadata" \notin DOMAIN data.v THEN "ValueError"
       ELSE IF InRaises(md) THEN "TypeError"
       ELSE IF ~In("title", md) \/ ~In("author", md) THEN "ValueError"
       ELSE IF md.t # "obj" THEN "TypeError"
       ELSE IF ~PyTruthy(md.v["title"]) \/ ~PyTruthy(md.v["author"]) THEN "ValueError"
       ELSE IF FromIsoOutcome(md, "created_at") # "ok" THEN FromIsoOutcome(md, "created_at")
       ELSE FromIsoOutcome(md, "updated_at")

(* Document.load: the except clause names OSError, JSONDecodeError and     *)
(* ValueError                                                              *)
Document_load(file) ==
    IF file.kind = "missing" THEN [result |-> "None", title |-> Null, author |-> Null]
    ELSE IF file.kind = "unparseable" THEN [result |-> "None", title |-> Null, author |-> Null]
    ELSE IF FromDictOutcome(file.data) = "ValueError"
    THEN [result |-> "None", title |-> Null, author |-> Null]
    ELSE IF FromDictOutcome(file.data) = "ok"
    THEN [result |-> "document", title |-> file.data.v["metadata"].v["title"],
          author |-> file.data.v["metadata"].v["author"]]
    ELSE [result |-> FromDictOutcome(file.data), title |-> Null, author |-> Null]

(* The values of one metadata field in a file: absent is the empty set of  *)
(* bindings                                                                *)
Field(key, values) == {EmptyDict} \cup {key :> x : x \in values}

MetadataInputs ==
    {Null, Num(5), Str("x"), Arr(<<>>), Arr(<<Str("title"), Str("author")>>)}
    \cup {Obj(t @@ a @@ c @@ u) :
            t \in Field("title", {Str(""), Str("T"), Num(7)}),
            a \in Field("author", {Str(""), Str("A")}),
            c \in Field("created_at", {Str(isoformat(0)), Str(BadIso), Num(5)}),
            u \in Field("updated_at", {Str(isoformat(1)), Str(BadIso), Null})}

LoadFiles ==
    {MissingFile, UnparseableFile}
    \cup {ParsedFile(j) : j \in {Arr(<<>>), Str("x"), Null, Obj(EmptyDict)}}
    \cup {ParsedFile(Obj([metadata |-> md])) : md \in MetadataInputs}
    \cup {ParsedFile(Obj([metadata |-> md, content |-> Str("a")])) : md \in MetadataInputs}

NotLoaded == [result |-> "pending", title |-> Null, author |-> Null]

(* Document.load(path) *)
LdLoad ==
    /\ ldOut = NotLoaded
    /\ ldOut' = Document_load(ldFile)
    /\ UNCHANGED ldFile
    /\ UNCHANGED exceptLd

LdInit == ldFile = MissingFile /\ ldOut = NotLoaded

LdNext == LdLoad

----------------------------------------------------------------------------
(* Template.validate on attributes of any shape (template.py)              *)
(*                                                                         *)
(* metadata, styles and layouts are public attributes: a client can set    *)
(* them to any value.  Each value carries its Python type.                 *)

(* Template.validate raises ValueError *)
Template_validate_shape_raises(t) ==
    \/ ~Truthy(t.name)
    \/ ~Truthy(t.category)
    \/ t.metadata.t # "obj"
    \/ "format" \notin DOMAIN t.metadata.v
    \/ ~(t.metadata.v["format"].t = "str" /\ t.metadata.v["format"].v \in VALID_FORMATS)
    \/ Get(t.metadata.v, "tags", Arr(<<>>)).t # "arr"
    \/ t.styles.t # "obj"
    \/ t.layouts.t # "arr"

Props == Obj([margin |-> Str("1cm")])

ShapeMetadataInputs ==
    {Str("not a dict")}
    \cup {Obj(f @@ g) :
            f \in Field("format", {Str("markdown"), Str("html"), Str("text"), Str("invalid")}),
            g \in Field("tags", {Arr(<<>>), Arr(<<Str("x")>>), Arr(<<Str("x"), Num(1)>>),
                                 Str("not a list")})}

ShapeStylesInputs ==
    {Obj(EmptyDict), Obj([fonts |-> Obj([default |-> Props])]), Obj([fonts |-> Str("bold")]),
     Obj([fonts |-> Obj([default |-> Str("12pt")])]), Str("not a dict")}

ShapeLayoutsInputs ==
    {Arr(<<>>), Arr(<<Props>>), Arr(<<Props, Obj(EmptyDict)>>), Arr(<<Str("x")>>),
     Str("not a list")}

ShapeInputs ==
    [name : {"Test", ""}, category : {"test"}, metadata : ShapeMetadataInputs,
     styles : ShapeStylesInputs, layouts : ShapeLayoutsInputs]

(* template.validate() *)
TvValidate ==
    /\ tvOut = "pending"
    /\ tvOut' = IF Template_validate_shape_raises(tvTemplate) THEN "ValueError" ELSE "True"
    /\ UNCHANGED tvTemplate
    /\ UNCHANGED exceptTv

TvInit ==
    /\ tvTemplate = [name |-> "Test", category |-> "test",
                     metadata |-> Obj([format |-> Str("markdown")]),
                     styles |-> Obj(EmptyDict), layouts |-> Arr(<<>>)]
    /\ tvOut = "pending"

TvNext == TvValidate

----------------------------------------------------------------------------
(* Template.render (template.py)                                           *)
(*                                                                         *)
(* A dict is iterated in insertion order: here a style or layout dict is   *)
(* the sequence of its <<property, value>> items, and a style category the *)
(* sequence of its style dicts.  A string render builds is the sequence of *)
(* the pieces it is put together from.                                     *)

(* "; ".join(f"{k}: {v}" for k, v in ...) of a sequence of items *)
RECURSIVE JoinDeclarations(_)
JoinDeclarations(items) ==
    IF items = <<>> THEN <<>>
    ELSE IF Len(items) = 1 THEN <<items[1][1], ": ", items[1][2]>>
    ELSE <<items[1][1], ": ", items[1][2], "; ">> \o JoinDeclarations(Tail(items))

(* The items of all the dicts of a sequence of dicts, in order *)
RECURSIVE Items(_)
Items(dicts) == IF dicts = <<>> THEN <<>> ELSE Head(dicts) \o Items(Tail(dicts))

(* The items of the styles of one category; none when the category is not  *)
(* in self.styles                                                          *)
CategoryItems(t, category) ==
    IF category \in DOMAIN t.styles THEN Items(t.styles[category]) ELSE <<>>

(* Template._build_border_style *)
Template_build_border_style(t) == JoinDeclarations(CategoryItems(t, "borders"))

Template_build_content_style_text_first(t) ==
    JoinDeclarations(CategoryItems(t, "text") \o CategoryItems(t, "fonts")
                     \o CategoryItems(t, "background") \o Items(t.layouts))

(* Template._build_content_style *)
Template_build_content_style(t) ==
    JoinDeclarations(CategoryItems(t, "fonts") \o CategoryItems(t, "text")
                     \o CategoryItems(t, "background") \o Items(t.layouts))

(* markdown.markdown(content): the result of the external converter *)
markdown(content) == <<"markdown.markdown(", content, ")">>

(* Template.render raises ValueError *)
Template_render_raises(t, content) ==
    ~PyTruthy(content) \/ t.metadata.format \notin VALID_FORMATS

(* Template.render, when it does not raise *)
Template_render(t, content) ==
    LET html_content ==
            IF t.metadata.format = "markdown" THEN markdown(content.v)
            ELSE IF t.metadata.format = "html" THEN <<content.v>>
            ELSE <<"<pre>", content.v, "</pre>">>
    IN <<"<div style='">> \o Template_build_border_style(t) \o <<"'>\n">>
       \o <<"<div style='">> \o Template_build_content_style(t) \o <<"'>\n">>
       \o html_content \o <<"\n">>
       \o <<"</div>\n">>
       \o <<"</div>">>

(* The styles of one category in a template: absent, or one of dicts *)
CategoryInputs_render(category, dicts) == {EmptyDict} \cup {category :> d : d \in dicts}

RenderStyleInputs ==
    {b @@ f @@ x @@ g @@ c :
        b \in CategoryInputs_render("borders", {<< <<<<"border", "1px">>, <<"border-radius", "8px">>>> >>}),
        f \in CategoryInputs_render("fonts", {<< <<<<"font-size", "12pt">>>> >>,
                                              << <<<<"font-size", "12pt">>>>,
                                                 <<<<"font-family", "Arial">>>> >>}),
        x \in CategoryInputs_render("text", {<< <<<<"color", "black">>>> >>}),
        g \in CategoryInputs_render("background", {<< <<<<"background-color", "white">>>> >>}),
        c \in CategoryInputs_render("custom", {<< <<<<"zoom", "2">>>> >>})}

RenderLayoutInputs ==
    {<<>>, << <<<<"margin", "1cm">>>> >>,
     << <<<<"margin", "1cm">>>>, <<<<"margin", "2cm">>, <<"padding", "0">>>> >>}

RenderTemplateInputs ==
    [name : {"Test"}, category : {"test"},
     metadata : {[DefaultMetadata EXCEPT !.format = f] : f \in VALID_FORMATS \cup {"invalid"}},
     styles : RenderStyleInputs, layouts : RenderLayoutInputs]

ContentInputs == {Null, Str(""), Str("# Hi")}

NotRendered == [state |-> "pending", value |-> <<>>]

(* template.render(content) *)
RnRender ==
    /\ rnOut = NotRendered
    /\ rnOut' = IF Template_render_raises(rnTemplate, rnContent)
                THEN [state |-> "ValueError", value |-> <<>>]
                ELSE [state |-> "returned", value |-> Template_render(rnTemplate, rnContent)]
    /\ UNCHANGED <<rnTemplate, rnContent>>
    /\ UNCHANGED exceptRn

RnInit ==
    /\ rnTemplate = [name |-> "Test", category |-> "test", metadata |-> DefaultMetadata,
                     styles |-> EmptyDict, layouts |-> <<>>]
    /\ rnContent = Str("# Hi")
    /\ rnOut = NotRendered

RnNext == RnRender

----------------------------------------------------------------------------
(* Editor and its Document (core/editor.py)                                *)
(*                                                                         *)
(* The Document of this module holds a title, a content, the revision     *)
(* history (the list of the contents it had) and its two timestamps. Of    *)
(* the timestamps the model keeps what they are, not when: "datetime" for  *)
(* datetime objects, "str" for the strings from_dict puts in their place.  *)

MaxRevisions == 2

(* Document(content, title): created_at and updated_at are datetime.now() *)
EditorDocument(content, title) ==
    [title |-> title, content |-> content, revisions |-> <<>>, stamps |-> "datetime"]

(* Document.update_content raises ValueError: the texts of the model have  *)
(* no whitespace, so new_content.strip() == "" is new_content == ""        *)
EditorDocument_update_content_raises(new_content) == new_content = ""

(* Document.update_content; updated_at becomes a datetime, created_at      *)
(* stays what it was, and to_dict formats created_at first                 *)
EditorDocument_update_content(d, new_content) ==
    [d EXCEPT !.revisions = Append(@, d.content), !.content = new_content]

(* Document.to_dict: strftime of the timestamps, and "No strftime" for     *)
(* both when they are not datetime objects                                 *)
EditorDocument_to_dict(d) ==
    [title |-> d.title, content |-> d.content, revisions |-> d.revisions,
     created_at |-> IF d.stamps = "datetime" THEN "%Y-%m-%d %H:%M:%S" ELSE "No strftime"]

(* Document.from_dict raises ValueError: strptime of "No strftime" *)
EditorDocument_from_dict_raises(data) == data.created_at = "No strftime"

(* Document.from_dict: data["metadata"] is put over the parsed timestamps, *)
(* so the loaded document holds them as strings                            *)
EditorDocument_from_dict(data) ==
    [title |-> data.title, content |-> data.content, revisions |-> data.revisions,
     stamps |-> "str"]

(* Editor.save_document: False without a current document, else the file   *)
(* named by the title is written                                           *)
Editor_save_document(current, fs) ==
    IF current = <<>>
    THEN [result |-> "False", files |-> fs]
    ELSE [result |-> "True",
          files |-> [fs EXCEPT ![current[1].title] = JsonFile(EditorDocument_to_dict(current[1]))]]

(* Editor.new_document: the new document becomes current and is saved *)
Editor_new_document(fs, title) ==
    [current |-> <<EditorDocument("", title)>>,
     files |-> Editor_save_document(<<EditorDocument("", title)>>, fs).files]

(* A file of storage_dir whose text is not JSON, put there by another      *)
(* program                                                                 *)
InvalidJsonFile == [kind |-> "invalid", data |-> EmptyDict]

(* Editor.load_document: None when there is no file; the JSONDecodeError   *)
(* of json.load and the ValueError of from_dict leave the method, with     *)
(* current_document as it was                                              *)
Editor_load_document(current, fs, title) ==
    IF fs[title].kind = "absent"
    THEN [result |-> "None", current |-> current]
    ELSE IF fs[title].kind = "invalid"
    THEN [result |-> "JSONDecodeError", current |-> current]
    ELSE IF EditorDocument_from_dict_raises(fs[title].data)
    THEN [result |-> "ValueError", current |-> current]
    ELSE [result |-> "document", current |-> <<EditorDocument_from_dict(fs[title].data)>>]

EditorTitles == {"Untitled", "Book"}

(* editor.new_document(title) *)
EdNewDocument(title) ==
    LET r == Editor_new_document(edFiles, title)
    IN /\ edCurrent' = r.current
       /\ edFiles' = r.files
       /\ edOp' = [op |-> "new_document", arg |-> title, result |-> "document"]
       /\ UNCHANGED exceptEd

(* editor.save_document() *)
EdSaveDocument ==
    LET r == Editor_save_document(edCurrent, edFiles)
    IN /\ edFiles' = r.files
       /\ edOp' = [op |-> "save_document", arg |-> "", result |-> r.result]
       /\ UNCHANGED edCurrent
       /\ UNCHANGED exceptEd

(* editor.load_document(title) *)
EdLoadDocument(title) ==
    LET r == Editor_load_document(edCurrent, edFiles, title)
    IN /\ edCurrent' = r.current
       /\ edOp' = [op |-> "load_document", arg |-> title, result |-> r.result]
       /\ UNCHANGED edFiles
       /\ UNCHANGED exceptEd

(* editor.current_document.update_content(new_content) *)
EdUpdateContent(new_content) ==
    /\ edCurrent # <<>>
    /\ Len(edCurrent[1].revisions) < MaxRevisions
    /\ edOp' = [op |-> "update_content", arg |-> new_content,
                result |-> IF EditorDocument_update_content_raises(new_content)
                           THEN "ValueError" ELSE "None"]
    /\ edCurrent' = IF EditorDocument_update_content_raises(new_content) THEN edCurrent
                    ELSE <<EditorDocument_update_content(edCurrent[1], new_content)>>
    /\ UNCHANGED edFiles
    /\ UNCHANGED exceptEd

(* path.write_text("invalid json") by another program *)
EdForeignWrite(title) ==
    /\ edFiles' = [edFiles EXCEPT ![title] = InvalidJsonFile]
    /\ edOp' = [op |-> "foreign_write", arg |-> title, result |-> "None"]
    /\ UNCHANGED edCurrent
    /\ UNCHANGED exceptEd

(* Editor.__init__ on a new storage directory *)
EdInit ==
    /\ edCurrent = <<>>
    /\ edFiles = [title \in EditorTitles |-> Absent]
    /\ edOp = [op |-> "init", arg |-> "", result |-> "None"]

EdNext ==
    \/ \E title \in EditorTitles : EdNewDocument(title)
    \/ EdSaveDocument
    \/ \E title \in EditorTitles : EdLoadDocument(title)
    \/ \E new_content \in Texts \cup {""} : EdUpdateContent(new_content)
    \/ \E title \in EditorTitles : EdForeignWrite(title)

----------------------------------------------------------------------------
(* StorageManager (data/storage.py)                                        *)
(*                                                                         *)
(* A path is the sequence of its components; the file system is a function *)
(* from the resolved absolute paths of FsPaths to what is there.           *)

NoNode == [kind |-> "none", text |-> ""]
DirNode == [kind |-> "dir", text |-> ""]
FileNode(text) == [kind |-> "file", text |-> text]

(* The resolved path of StorageManager.root_dir *)
RootDir == <<"root">>

FsPaths ==
    {<<>>, <<"root">>, <<"root", "a">>, <<"root", "d">>, <<"root", "d", "a">>, <<"secret">>}

(* self.root_dir / relative_path: an absolute right operand replaces the   *)
(* left one (an absolute path starts with the component "/")               *)
PathJoin(root, relative_path) ==
    IF relative_path # <<>> /\ relative_path[1] = "/"
    THEN Tail(relative_path)
    ELSE root \o relative_path

(* Path.parent: the path without its last component, ".." not resolved *)
PathParent(path) == IF path = <<>> THEN <<>> ELSE SubSeq(path, 1, Len(path) - 1)

(* What the operating system makes of a path: ".." steps to the parent of  *)
(* an existing directory                                                   *)
RECURSIVE Resolve(_)
Resolve(path) ==
    IF path = <<>> THEN <<>>
    ELSE LET r == Resolve(PathParent(path))
         IN IF path[Len(path)] = ".." THEN PathParent(r) ELSE Append(r, path[Len(path)])

Prefixes(path) == {SubSeq(path, 1, n) : n \in 0..Len(path)}

(* Path.exists(), Path.is_dir() *)
FsExists(fs, path) == fs[path].kind # "none"

FsIsDir(fs, path) == fs[path].kind = "dir"

(* Path.mkdir(parents=True, exist_ok=True): raises when the path or one of *)
(* its ancestors is a file                                                 *)
MkdirParentsRaises(fs, path) == \E q \in Prefixes(path) : fs[q].kind = "file"

MkdirParents(fs, path) == [q \in FsPaths |-> IF q \in Prefixes(path) THEN DirNode ELSE fs[q]]

(* A call of StorageManager: what it did, the resolved path it acted on,   *)
(* the value it returned, and the paths it read, wrote or removed          *)
StOutcome(result, path, value, touched, fs) ==
    [result |-> result, path |-> path, value |-> value, touched |-> touched, fs |-> fs]

(* json.dump(content, f) of a dict and f.write(content) of a str *)
Written(content) == IF content.t = "obj" THEN "{}" ELSE content.v

(* StorageManager.save_file *)
StorageManager_save_file(fs, relative_path, content) ==
    LET file_path == PathJoin(RootDir, relative_path)
        target == Resolve(file_path)
        parent == Resolve(PathParent(file_path))
        made == MkdirParents(fs, parent)
    IN IF MkdirParentsRaises(fs, parent)
       THEN StOutcome("FileExistsError", target, {}, {}, fs)
       ELSE IF FsIsDir(made, target)
       THEN StOutcome("IsADirectoryError", target, {}, {}, made)
       ELSE StOutcome("None", target, {}, {target},
                      [made EXCEPT ![target] = FileNode(Written(content))])

(* StorageManager.load_file *)
StorageManager_load_file(fs, relative_path, as_json) ==
    LET target == Resolve(PathJoin(RootDir, relative_path))
    IN IF ~FsExists(fs, target)
       THEN StOutcome("FileNotFoundError", target, {}, {}, fs)
       ELSE IF FsIsDir(fs, target)
       THEN StOutcome("IsADirectoryError", target, {}, {}, fs)
       ELSE IF as_json /\ fs[target].text # "{}"
       THEN StOutcome("JSONDecodeError", target, {}, {target}, fs)
       ELSE StOutcome("returns", target, {fs[target].text}, {target}, fs)

(* StorageManager.delete_file: unlink() of a directory raises an OSError *)
StorageManager_delete_file(fs, relative_path) ==
    LET target == Resolve(PathJoin(RootDir, relative_path))
    IN IF ~FsExists(fs, target)
       THEN StOutcome("None", target, {}, {}, fs)
       ELSE IF FsIsDir(fs, target)
       THEN StOutcome("OSError", target, {}, {}, fs)
       ELSE StOutcome("None", target, {}, {target}, [fs EXCEPT ![target] = NoNode])

(* StorageManager.create_directory *)
StorageManager_create_directory(fs, relative_path) ==
    LET dir_path == PathJoin(RootDir, relative_path)
        target == Resolve(dir_path)
        has_slash == Len(relative_path) > 1 \/ (relative_path # <<>> /\ relative_path[1] = "/")
    IN IF has_slash /\ ~FsExists(fs, Resolve(PathParent(dir_path)))
       THEN StOutcome("ValueError", target, {}, {}, fs)
       ELSE IF FsIsDir(fs, target)
       THEN StOutcome("None", target, {}, {}, fs)
       ELSE IF FsExists(fs, target)
       THEN StOutcome("FileExistsError", target, {}, {}, fs)
       ELSE IF ~FsIsDir(fs, PathParent(target))
       THEN StOutcome(IF FsExists(fs, PathParent(target)) THEN "NotADirectoryError"
                      ELSE "FileNotFoundError", target, {}, {}, fs)
       ELSE StOutcome("None", target, {}, {target}, [fs EXCEPT ![target] = DirNode])

(* StorageManager.list_directory: the names of the entries, in no order *)
StorageManager_list_directory(fs, relative_path) ==
    LET target == Resolve(PathJoin(RootDir, relative_path))
        entries == {q \in FsPaths : q # <<>> /\ PathParent(q) = target /\ FsExists(fs, q)}
    IN IF ~FsExists(fs, target) \/ ~FsIsDir(fs, target)
       THEN StOutcome("returns", target, {}, {}, fs)
       ELSE StOutcome("returns", target, {q[Len(q)] : q \in entries}, {target}, fs)

(* "a", "d", "d/a", "", "..", "../secret", "/secret" *)
RelativePaths ==
    {<<"a">>, <<"d">>, <<"d", "a">>, <<>>, <<"..">>, <<"..", "secret">>, <<"/", "secret">>}

FileContents == {Str("x"), Obj(EmptyDict)}

(* What stOp keeps of a call *)
StCalled(op, relative_path, r) ==
    [op |-> op, arg |-> relative_path, result |-> r.result, path |-> r.path,
     value |-> r.value, touched |-> r.touched]

(* storage.save_file(relative_path, content) *)
StSaveFile(relative_path, content) ==
    LET r == StorageManager_save_file(stFs, relative_path, content)
    IN /\ stFs' = r.fs
       /\ stOp' = StCalled("save_file", relative_path, r)
       /\ UNCHANGED exceptSt

(* storage.load_file(relative_path, as_json) *)
StLoadFile(relative_path, as_json) ==
    LET r == StorageManager_load_file(stFs, relative_path, as_json)
    IN /\ stFs' = r.fs
       /\ stOp' = StCalled("load_file", relative_path, r)
       /\ UNCHANGED exceptSt

(* storage.delete_file(relative_path) *)
StDeleteFile(relative_path) ==
    LET r == StorageManager_delete_file(stFs, relative_path)
    IN /\ stFs' = r.fs
       /\ stOp' = StCalled("delete_file", relative_path, r)
       /\ UNCHANGED exceptSt

(* storage.create_directory(relative_path) *)
StCreateDirectory(relative_path) ==
    LET r == StorageManager_create_directory(stFs, relative_path)
    IN /\ stFs' = r.fs
       /\ stOp' = StCalled("create_directory", relative_path, r)
       /\ UNCHANGED exceptSt

(* storage.list_directory(relative_path) *)
StListDirectory(relative_path) ==
    LET r == StorageManager_list_directory(stFs, relative_path)
    IN /\ stFs' = r.fs
       /\ stOp' = StCalled("list_directory", relative_path, r)
       /\ UNCHANGED exceptSt

(* StorageManager.__init__: root_dir exists; beside it lies a file of      *)
(* another program                                                         *)
StInit ==
    /\ stFs = [q \in FsPaths |->
                  IF q \in {<<>>, RootDir} THEN DirNode
                  ELSE IF q = <<"secret">> THEN FileNode("x") ELSE NoNode]
    /\ stOp = [op |-> "init", arg |-> <<>>, result |-> "None", path |-> RootDir,
               value |-> {}, touched |-> {}]

StNext ==
    \/ \E relative_path \in RelativePaths, content \in FileContents :
          StSaveFile(relative_path, content)
    \/ \E relative_path \in RelativePaths, as_json \in BOOLEAN :
          StLoadFile(relative_path, as_json)
    \/ \E relative_path \in RelativePaths : StDeleteFile(relative_path)
    \/ \E relative_path \in RelativePaths : StCreateDirectory(relative_path)
    \/ \E relative_path \in RelativePaths : StListDirectory(relative_path)

----------------------------------------------------------------------------
(* EditorComponent (components/text_editor.py)                             *)
(*                                                                         *)
(* A content is the sequence of its characters; None is <<>> and an        *)
(* integer n is <<n>> in selection_start and selection_end.                *)

MaxStack == 3

(* max(0, min(position, length)) *)
Clamp(position, length) == Max({0, Min({position, length})})

(* EditorComponent.__init__ *)
EditorComponent_init ==
    [content |-> <<>>, cursor_position |-> 0, selection_start |-> <<>>,
     selection_end |-> <<>>, undo_stack |-> <<>>, redo_stack |-> <<>>]

(* EditorComponent.clear_selection *)
EditorComponent_clear_selection(c) ==
    [c EXCEPT !.selection_start = <<>>, !.selection_end = <<>>]

(* EditorComponent.set_content: the redo stack is cleared *)
EditorComponent_set_content_keeps_redo(c, content) ==
    [c EXCEPT !.undo_stack = Append(@, c.content), !.content = content,
              !.cursor_position = Len(content)]

(* EditorComponent.set_content *)
EditorComponent_set_content(c, content) ==
    [c EXCEPT !.undo_stack = Append(@, c.content), !.content = content,
              !.cursor_position = Len(content), !.redo_stack = <<>>]

(* EditorComponent.move_cursor *)
EditorComponent_move_cursor(c, position) ==
    EditorComponent_clear_selection(
        [c EXCEPT !.cursor_position = Clamp(position, Len(c.content))])

(* EditorComponent.select_text *)
EditorComponent_select_text(c, start, end) ==
    [c EXCEPT !.selection_start = <<Clamp(start, Len(c.content))>>,
              !.selection_end = <<Clamp(end, Len(c.content))>>,
              !.cursor_position = Clamp(end, Len(c.content))]

(* EditorComponent.undo *)
EditorComponent_undo(c) ==
    IF c.undo_stack # <<>>
    THEN EditorComponent_clear_selection(
             [c EXCEPT !.redo_stack = Append(@, c.content),
                       !.content = c.undo_stack[Len(c.undo_stack)],
                       !.undo_stack = SubSeq(@, 1, Len(@) - 1),
                       !.cursor_position = Len(c.undo_stack[Len(c.undo_stack)])])
    ELSE c

(* EditorComponent.redo *)
EditorComponent_redo(c) ==
    IF c.redo_stack # <<>>
    THEN EditorComponent_clear_selection(
             [c EXCEPT !.undo_stack = Append(@, c.content),
                       !.content = c.redo_stack[Len(c.redo_stack)],
                       !.redo_stack = SubSeq(@, 1, Len(@) - 1),
                       !.cursor_position = Len(c.redo_stack[Len(c.redo_stack)])])
    ELSE c

ComponentContents == {<<>>, <<"a">>, <<"a", "b">>}
Positions == {-1, 0, 1, 2, 3}

(* What cmpOp keeps of a call: its name, the content before it, whether it *)
(* changed the content and the stacks, and the call before it              *)
CmpCalled(op, applied) ==
    [op |-> op, before |-> cmp.content, applied |-> applied, prev |-> cmpOp.op]

(* editor.set_content(content) *)
CmpSetContent(content) ==
    /\ Len(cmp.undo_stack) < MaxStack
    /\ cmp' = EditorComponent_set_content(cmp, content)
    /\ cmpOp' = CmpCalled("set_content", TRUE)
    /\ UNCHANGED exceptCmp

(* editor.move_cursor(position) *)
CmpMoveCursor(position) ==
    /\ cmp' = EditorComponent_move_cursor(cmp, position)
    /\ cmpOp' = CmpCalled("move_cursor", FALSE)
    /\ UNCHANGED exceptCmp

(* editor.select_text(start, end) *)
CmpSelectText(start, end) ==
    /\ cmp' = EditorComponent_select_text(cmp, start, end)
    /\ cmpOp' = CmpCalled("select_text", FALSE)
    /\ UNCHANGED exceptCmp

(* editor.clear_selection() *)
CmpClearSelection ==
    /\ cmp' = EditorComponent_clear_selection(cmp)
    /\ cmpOp' = CmpCalled("clear_selection", FALSE)
    /\ UNCHANGED exceptCmp

(* editor.undo() *)
CmpUndo ==
    /\ cmp' = EditorComponent_undo(cmp)
    /\ cmpOp' = CmpCalled("undo", cmp.undo_stack # <<>>)
    /\ UNCHANGED exceptCmp

(* editor.redo() *)
CmpRedo ==
    /\ cmp' = EditorComponent_redo(cmp)
    /\ cmpOp' = CmpCalled("redo", cmp.redo_stack # <<>>)
    /\ UNCHANGED exceptCmp

CmpInit ==
    /\ cmp = EditorComponent_init
    /\ cmpOp = [op |-> "init", before |-> <<>>, applied |-> FALSE, prev |-> "init"]

CmpNext ==
    \/ \E content \in ComponentContents : CmpSetContent(content)
    \/ \E position \in Positions : CmpMoveCursor(position)
    \/ \E start \in Positions, end \in Positions : CmpSelectText(start, end)
    \/ CmpClearSelection
    \/ CmpUndo
    \/ CmpRedo

----------------------------------------------------------------------------
(* The chapter Editor (components/editor.py) and its Book (models/book.py) *)
(*                                                                         *)
(* A chapter is an object: id tells the chapters of a book apart whatever  *)
(* their place in book.chapters.  An entry of the undo or redo stack holds  *)
(* chapter_index and content as in the code, and edited, the id of the     *)
(* chapter update_content changed, which no method reads.                  *)

MaxChapterId == 2
MaxEdits == 2

Chapter(id, content) == [id |-> id, content |-> content]

(* list[i] of Python: a negative index counts from the end *)
PyIndex(list, i) == IF i < 0 THEN i + Len(list) + 1 ELSE i + 1

PyIndexRaises(list, i) == PyIndex(list, i) \notin 1..Len(list)

(* del list[index], list.pop(index) *)
Deleted(list, index) == SubSeq(list, 1, index) \o SubSeq(list, index + 2, Len(list))

(* list.insert(index, item) *)
Inserted(list, index, item) ==
    SubSeq(list, 1, index) \o <<item>> \o SubSeq(list, index + 1, Len(list))

Pop(stack) == SubSeq(stack, 1, Len(stack) - 1)

Top(stack) == stack[Len(stack)]

(* What a call of the chapter Editor did and the editor after it *)
CeOutcome(result, editor) == [result |-> result, editor |-> editor]

(* Editor.__init__ *)
ChapterEditor_init ==
    [current_book |-> <<>>, current_chapter_index |-> 0, undo_stack |-> <<>>,
     redo_stack |-> <<>>]

(* Editor.load_book *)
ChapterEditor_load_book(e, book) ==
    CeOutcome("None", [current_book |-> <<book>>, current_chapter_index |-> 0,
                       undo_stack |-> <<>>, redo_stack |-> <<>>])

(* Editor.next_chapter *)
ChapterEditor_next_chapter(e) ==
    IF e.current_book = <<>> THEN CeOutcome("ValueError", e)
    ELSE IF e.current_chapter_index < Len(e.current_book[1]) - 1
    THEN CeOutcome("None", [e EXCEPT !.current_chapter_index = @ + 1])
    ELSE CeOutcome("None", e)

(* Editor.previous_chapter *)
ChapterEditor_previous_chapter(e) ==
    IF e.current_book = <<>> THEN CeOutcome("ValueError", e)
    ELSE IF e.current_chapter_index > 0
    THEN CeOutcome("None", [e EXCEPT !.current_chapter_index = @ - 1])
    ELSE CeOutcome("None", e)

(* Editor.update_content *)
ChapterEditor_update_content(e, new_content) ==
    IF e.current_book = <<>> THEN CeOutcome("ValueError", e)
    ELSE IF PyIndexRaises(e.current_book[1], e.current_chapter_index)
    THEN CeOutcome("IndexError", e)
    ELSE LET at == PyIndex(e.current_book[1], e.current_chapter_index)
             chapter == e.current_book[1][at]
         IN CeOutcome("None",
                [e EXCEPT !.undo_stack =
                              Append(@, [chapter_index |-> e.current_chapter_index,
                                         content |-> chapter.content,
                                         edited |-> chapter.id]),
                          !.redo_stack = <<>>,
                          !.current_book[1][at].content = new_content])

(* Editor.add_chapter; id is the identity of the new Chapter object *)
ChapterEditor_add_chapter(e, id, title, content) ==
    IF e.current_book = <<>> THEN CeOutcome("ValueError", e)
    ELSE IF title = "" THEN CeOutcome("ValueError", e)
    ELSE CeOutcome("None", [e EXCEPT !.current_book[1] = Append(@, Chapter(id, content))])

(* Editor.delete_chapter *)
ChapterEditor_delete_chapter(e, index) ==
    IF e.current_book = <<>> THEN CeOutcome("ValueError", e)
    ELSE IF index < 0 \/ index >= Len(e.current_book[1]) THEN CeOutcome("IndexError", e)
    ELSE LET chapters == Deleted(e.current_book[1], index)
         IN CeOutcome("None",
                [e EXCEPT !.current_book[1] = chapters,
                          !.current_chapter_index =
                              IF @ >= Len(chapters) THEN Len(chapters) - 1 ELSE @])

(* Editor.move_chapter *)
ChapterEditor_move_chapter(e, from_index, to_index) ==
    IF e.current_book = <<>> THEN CeOutcome("ValueError", e)
    ELSE IF \/ from_index < 0 \/ from_index >= Len(e.current_book[1])
            \/ to_index < 0 \/ to_index >= Len(e.current_book[1])
    THEN CeOutcome("IndexError", e)
    ELSE CeOutcome("None",
             [e EXCEPT !.current_book[1] =
                           Inserted(Deleted(@, from_index), to_index, @[from_index + 1])])

(* Editor.undo: the entry is popped before the chapter is looked up *)
ChapterEditor_undo(e) ==
    IF e.current_book = <<>> \/ e.undo_stack = <<>> THEN CeOutcome("None", e)
    ELSE LET current_state == Top(e.undo_stack)
             popped == [e EXCEPT !.undo_stack = Pop(@)]
             at == PyIndex(e.current_book[1], current_state.chapter_index)
         IN IF PyIndexRaises(e.current_book[1], current_state.chapter_index)
            THEN CeOutcome("IndexError", popped)
            ELSE CeOutcome("None",
                     [popped EXCEPT
                          !.redo_stack =
                              Append(@, [current_state EXCEPT
                                             !.content = e.current_book[1][at].content]),
                          !.current_book[1][at].content = current_state.content])

(* Editor.redo *)
ChapterEditor_redo(e) ==
    IF e.current_book = <<>> \/ e.redo_stack = <<>> THEN CeOutcome("None", e)
    ELSE LET next_state == Top(e.redo_stack)
             popped == [e EXCEPT !.redo_stack = Pop(@)]
             at == PyIndex(e.current_book[1], next_state.chapter_index)
         IN IF PyIndexRaises(e.current_book[1], next_state.chapter_index)
            THEN CeOutcome("IndexError", popped)
            ELSE CeOutcome("None",
                     [popped EXCEPT
                          !.undo_stack =
                              Append(@, [next_state EXCEPT
                                             !.content = e.current_book[1][at].content]),
                          !.current_book[1][at].content = next_state.content])

(* Books handed to load_book: no chapter, one chapter, two chapters *)
BookInputs ==
    {<<>>, <<Chapter(1, "c")>>, <<Chapter(1, "c"), Chapter(2, "c")>>}

ChapterIndexes == -1..2

(* What ceOp keeps of a call: its name and its result *)
CeCalled(op, result) == [op |-> op, result |-> result]

(* editor.load_book(book) *)
CeLoadBook(book) ==
    LET r == ChapterEditor_load_book(ce, book)
    IN /\ ce' = r.editor
       /\ ceNextId' = Len(book) + 1
       /\ ceOp' = CeCalled("load_book", r.result)
       /\ UNCHANGED exceptCe

(* editor.next_chapter() *)
CeNextChapter ==
    LET r == ChapterEditor_next_chapter(ce)
    IN /\ ce' = r.editor
       /\ ceOp' = CeCalled("next_chapter", r.result)
       /\ UNCHANGED ceNextId
       /\ UNCHANGED exceptCe

(* editor.previous_chapter() *)
CePreviousChapter ==
    LET r == ChapterEditor_previous_chapter(ce)
    IN /\ ce' = r.editor
       /\ ceOp' = CeCalled("previous_chapter", r.result)
       /\ UNCHANGED ceNextId
       /\ UNCHANGED exceptCe

(* editor.update_content(new_content) *)
CeUpdateContent(new_content) ==
    LET r == ChapterEditor_update_content(ce, new_content)
    IN /\ Len(ce.undo_stack) < MaxEdits
       /\ ce' = r.editor
       /\ ceOp' = CeCalled("update_content", r.result)
       /\ UNCHANGED ceNextId
       /\ UNCHANGED exceptCe

(* editor.add_chapter(title, content) *)
CeAddChapter(title, content) ==
    LET r == ChapterEditor_add_chapter(ce, ceNextId, title, content)
    IN /\ ceNextId <= MaxChapterId
       /\ ce' = r.editor
       /\ ceNextId' = IF r.result = "None" THEN ceNextId + 1 ELSE ceNextId
       /\ ceOp' = CeCalled("add_chapter", r.result)
       /\ UNCHANGED exceptCe

(* editor.delete_chapter(index) *)
CeDeleteChapter(index) ==
    LET r == ChapterEditor_delete_chapter(ce, index)
    IN /\ ce' = r.editor
       /\ ceOp' = CeCalled("delete_chapter", r.result)
       /\ UNCHANGED ceNextId
       /\ UNCHANGED exceptCe

(* editor.move_chapter(from_index, to_index) *)
CeMoveChapter(from_index, to_index) ==
    LET r == ChapterEditor_move_chapter(ce, from_index, to_index)
    IN /\ ce' = r.editor
       /\ ceOp' = CeCalled("move_chapter", r.result)
       /\ UNCHANGED ceNextId
       /\ UNCHANGED exceptCe

(* editor.undo() *)
CeUndo ==
    LET r == ChapterEditor_undo(ce)
    IN /\ ce' = r.editor
       /\ ceOp' = CeCalled("undo", r.result)
       /\ UNCHANGED ceNextId
       /\ UNCHANGED exceptCe

(* editor.redo() *)
CeRedo ==
    LET r == ChapterEditor_redo(ce)
    IN /\ ce' = r.editor
       /\ ceOp' = CeCalled("redo", r.result)
       /\ UNCHANGED ceNextId
       /\ UNCHANGED exceptCe

CeInit ==
    /\ ce = ChapterEditor_init
    /\ ceNextId = 1
    /\ ceOp = CeCalled("init", "None")

CeNext ==
    \/ \E book \in BookInputs : CeLoadBook(book)
    \/ CeNextChapter
    \/ CePreviousChapter
    \/ \E new_content \in {"x"} : CeUpdateContent(new_content)
    \/ \E title \in {"T", ""} : CeAddChapter(title, "c")
    \/ \E index \in ChapterIndexes : CeDeleteChapter(index)
    \/ \E from_index \in ChapterIndexes, to_index \in ChapterIndexes :
          CeMoveChapter(from_index, to_index)
    \/ CeUndo
    \/ CeRedo

----------------------------------------------------------------------------
(* DocumentManager (core/document_manager.py)                              *)
(*                                                                         *)
(* A title and a document id are sequences of characters; the file         *)
(* <doc_id>.json is kept under its stem doc_id, and the stem of            *)
(* <doc_id>.backup.json is doc_id followed by ".backup".  A document is    *)
(* its title and content: save and load keep both.                         *)

(* str.lower() of one character *)
ToLower(c) == IF c = "A" THEN "a" ELSE IF c = "B" THEN "b" ELSE c

(* document.metadata["title"].lower().replace(" ", "-") *)
DocId(title) == [i \in DOMAIN title |-> IF title[i] = " " THEN "-" ELSE ToLower(title[i])]

(* f"{doc_id}.backup.json" without its suffix *)
BackupStem(doc_id) == Append(doc_id, ".backup")

NoFile == [exists |-> FALSE, title |-> <<>>, content |-> ""]

(* Document.save(path): the file holds the document *)
SavedFile(document) == [exists |-> TRUE, title |-> document.title, content |-> document.content]

(* Document.load(path) of a file Document.save wrote *)
LoadedDocument(file) == [title |-> file.title, content |-> file.content]

(* What a call of the DocumentManager did, its value and the files after it *)
DmOutcome(result, value, fs) == [result |-> result, value |-> value, files |-> fs]

(* DocumentManager.save_document: returns the id *)
DocumentManager_save_document(fs, document) ==
    DmOutcome("returns", {DocId(document.title)},
              [fs EXCEPT ![DocId(document.title)] = SavedFile(document)])

(* DocumentManager.load_document *)
DocumentManager_load_document(fs, doc_id) ==
    IF ~fs[doc_id].exists
    THEN DmOutcome("ValueError", {}, fs)
    ELSE DmOutcome("returns", {LoadedDocument(fs[doc_id])}, fs)

(* DocumentManager.delete_document *)
DocumentManager_delete_document(fs, doc_id) ==
    IF ~fs[doc_id].exists
    THEN DmOutcome("ValueError", {}, fs)
    ELSE DmOutcome("None", {}, [fs EXCEPT ![doc_id] = NoFile])

(* DocumentManager.list_documents: an entry for every *.json file that     *)
(* loads, with the stem of the file as its id                              *)
DocumentManager_list_documents(fs) ==
    DmOutcome("returns",
              {[id |-> stem, title |-> fs[stem].title, content |-> fs[stem].content] :
                  stem \in {s \in DOMAIN fs : fs[s].exists}},
              fs)

(* DocumentManager.update_document *)
DocumentManager_update_document(fs, doc_id, document) ==
    IF ~fs[doc_id].exists
    THEN DmOutcome("ValueError", {}, fs)
    ELSE DmOutcome("None", {}, [fs EXCEPT ![doc_id] = SavedFile(document)])

(* DocumentManager.backup_document: returns the path of the backup *)
DocumentManager_backup_document(fs, doc_id) ==
    IF DocumentManager_load_document(fs, doc_id).result = "ValueError"
    THEN DmOutcome("ValueError", {}, fs)
    ELSE DmOutcome("returns", {BackupStem(doc_id)},
                   [fs EXCEPT ![BackupStem(doc_id)] = SavedFile(LoadedDocument(fs[doc_id]))])

(* DocumentManager.restore_document: returns the restored document *)
DocumentManager_restore_document(fs, doc_id, backup_path) ==
    IF ~fs[backup_path].exists
    THEN DmOutcome("ValueError", {}, fs)
    ELSE IF DocumentManager_update_document(
                fs, doc_id, LoadedDocument(fs[backup_path])).result = "ValueError"
    THEN DmOutcome("ValueError", {}, fs)
    ELSE DmOutcome("returns", {LoadedDocument(fs[backup_path])},
                   DocumentManager_update_document(
                       fs, doc_id, LoadedDocument(fs[backup_path])).files)

DmTitles == {<<"A">>, <<"A", " ", "b">>}

DmDocuments == {[title |-> title, content |-> content] : title \in DmTitles, content \in Texts}

DmIds == {DocId(title) : title \in DmTitles}

DmStems == DmIds \cup {BackupStem(doc_id) : doc_id \in DmIds}

(* manager.save_document(document); dmSaved holds the ids that were saved  *)
(* and not deleted since                                                   *)
DmSaveDocument(document) ==
    LET r == DocumentManager_save_document(dmFiles, document)
    IN /\ dmFiles' = r.files
       /\ dmSaved' = dmSaved \cup {DocId(document.title)}
       /\ dmOp' = [op |-> "save_document", result |-> r.result, value |-> r.value]
       /\ UNCHANGED exceptDm

(* manager.delete_document(doc_id) *)
DmDeleteDocument(doc_id) ==
    LET r == DocumentManager_delete_document(dmFiles, doc_id)
    IN /\ dmFiles' = r.files
       /\ dmSaved' = IF r.result = "None" THEN dmSaved \ {doc_id} ELSE dmSaved
       /\ dmOp' = [op |-> "delete_document", result |-> r.result, value |-> r.value]
       /\ UNCHANGED exceptDm

(* manager.list_documents() *)
DmListDocuments ==
    LET r == DocumentManager_list_documents(dmFiles)
    IN /\ dmOp' = [op |-> "list_documents", result |-> r.result, value |-> r.value]
       /\ UNCHANGED <<dmFiles, dmSaved>>
       /\ UNCHANGED exceptDm

(* manager.update_document(doc_id, document) *)
DmUpdateDocument(doc_id, document) ==
    LET r == DocumentManager_update_document(dmFiles, doc_id, document)
    IN /\ dmFiles' = r.files
       /\ dmOp' = [op |-> "update_document", result |-> r.result, value |-> r.value]
       /\ UNCHANGED dmSaved
       /\ UNCHANGED exceptDm

(* manager.backup_document(doc_id) *)
DmBackupDocument(doc_id) ==
    LET r == DocumentManager_backup_document(dmFiles, doc_id)
    IN /\ dmFiles' = r.files
       /\ dmOp' = [op |-> "backup_document", result |-> r.result, value |-> r.value]
       /\ UNCHANGED dmSaved
       /\ UNCHANGED exceptDm

(* manager.restore_document(doc_id, backup_path) *)
DmRestoreDocument(doc_id, backup_path) ==
    LET r == DocumentManager_restore_document(dmFiles, doc_id, backup_path)
    IN /\ dmFiles' = r.files
       /\ dmOp' = [op |-> "restore_document", result |-> r.result, value |-> r.value]
       /\ UNCHANGED dmSaved
       /\ UNCHANGED exceptDm

(* DocumentManager.__init__ on a new storage directory *)
DmInit ==
    /\ dmFiles = [stem \in DmStems |-> NoFile]
    /\ dmSaved = {}
    /\ dmOp = [op |-> "init", result |-> "None", value |-> {}]

DmNext ==
    \/ \E document \in DmDocuments : DmSaveDocument(document)
    \/ \E doc_id \in DmStems : DmDeleteDocument(doc_id)
    \/ DmListDocuments
    \/ \E doc_id \in DmIds, document \in DmDocuments : DmUpdateDocument(doc_id, document)
    \/ \E doc_id \in DmIds : DmBackupDocument(doc_id)
    \/ \E doc_id \in DmIds, backup_path \in DmStems : DmRestoreDocument(doc_id, backup_path)

Init ==
    DocInit /\ TplInit /\ MgrInit /\ SanInit /\ SmInit /\ LdInit /\ TvInit /\ RnInit /\ EdInit /\ StInit /\ CmpInit /\ CeInit /\ DmInit

(* Every name of NameInputs as the argument of _sanitize_filename *)
InitSanitize ==
    DocInit /\ TplInit /\ MgrInit /\ SmInit /\ LdInit /\ TvInit /\ RnInit /\ EdInit /\ StInit /\ CmpInit /\ CeInit /\ DmInit
    /\ sanIn \in NameInputs /\ SanIdle

(* Every file of LoadFiles as the file Document.load reads *)
InitLoad ==
    DocInit /\ TplInit /\ MgrInit /\ SanInit /\ SmInit /\ TvInit /\ RnInit /\ EdInit /\ StInit /\ CmpInit /\ CeInit /\ DmInit
    /\ ldFile \in LoadFiles /\ ldOut = NotLoaded

(* Every template of ShapeInputs as the template validate() is called on *)
InitValidate ==
    DocInit /\ TplInit /\ MgrInit /\ SanInit /\ SmInit /\ LdInit /\ RnInit /\ EdInit /\ StInit /\ CmpInit /\ CeInit /\ DmInit
    /\ tvTemplate \in ShapeInputs /\ tvOut = "pending"

(* Every template of RenderTemplateInputs rendering every content *)
InitRender ==
    DocInit /\ TplInit /\ MgrInit /\ SanInit /\ SmInit /\ LdInit /\ TvInit /\ EdInit /\ StInit /\ CmpInit /\ CeInit /\ DmInit
    /\ rnTemplate \in RenderTemplateInputs /\ rnContent \in ContentInputs
    /\ rnOut = NotRendered

SpecStorage == Init /\ [][StNext]_vars

SpecComponent == Init /\ [][CmpNext]_vars

SpecChapters == Init /\ [][CeNext]_vars

SpecDocuments == Init /\ [][DmNext]_vars

SpecEditor == Init /\ [][EdNext]_vars

SpecRender == InitRender /\ [][RnNext]_vars

SpecValidate == InitValidate /\ [][TvNext]_vars

SpecLoad == InitLoad /\ [][LdNext]_vars

SpecSanManager == Init /\ [][SmNext]_vars

SpecSanitize == InitSanitize /\ [][SanNext]_vars

SpecDocument == Init /\ [][DocNext]_vars

SpecTemplate == Init /\ [][TplNext]_vars

SpecManager == Init /\ [][MgrNext]_vars

----------------------------------------------------------------------------
(* Document: claims *)

\* C1: a set_content call with non-empty text that differs from the current
\* content increases version by exactly 1 and makes the text the content; a
\* call with the current content leaves version, content and the undo
\* history unchanged.
C1_SetContentVersion ==
    [][(docOp'.op = "set_content" /\ ~docOp'.raised) =>
          IF docOp'.arg # doc.content
          THEN /\ doc'.version = doc.version + 1
               /\ doc'.content = docOp'.arg
          ELSE /\ doc'.version = doc.version
               /\ doc'.content = doc.content
               /\ doc'.history = doc.history
               /\ doc'.history_index = doc.history_index]_vars

C1_Witness ==
    /\ docOp.op = "set_content" /\ ~docOp.raised /\ docOp.arg = "b"
    /\ doc.history = <<"", "a", "b">>
    /\ doc.version = 3

\* C2: undo() and redo() move the history cursor exactly one step, version
\* moving with it: an undo not at the history start restores the previous
\* snapshot and decreases version by 1, a redo not at the history end
\* restores the next snapshot and increases version by 1; at the boundary
\* neither raises and the document is left as it was.
C2_UndoRedoLockstep ==
    [][/\ docOp'.op = "undo" =>
            /\ ~docOp'.raised
            /\ IF doc.history_index > 0
               THEN /\ doc'.history_index = doc.history_index - 1
                    /\ doc'.content = doc.history[doc.history_index]
                    /\ doc'.version = doc.version - 1
                    /\ doc'.history = doc.history
               ELSE doc' = doc
       /\ docOp'.op = "redo" =>
            /\ ~docOp'.raised
            /\ IF doc.history_index < Len(doc.history) - 1
               THEN /\ doc'.history_index = doc.history_index + 1
                    /\ doc'.content = doc.history[doc.history_index + 2]
                    /\ doc'.version = doc.version + 1
                    /\ doc'.history = doc.history
               ELSE doc' = doc]_vars

C2_Witness ==
    /\ docOp.op = "redo"
    /\ redoPhase = "undone"
    /\ Len(doc.history) = 3
    /\ doc.history_index = 1
    /\ doc.content = doc.history[2]

\* C3 as stated: after any set_content that follows an undo(), every redo()
\* before the next undo() leaves content and version unchanged.
C3_AnySetContentDiscardsRedo ==
    [][(docOp'.op = "redo" /\ redoPhase \in {"set_same", "set_new"}) =>
          /\ doc'.content = doc.content
          /\ doc'.version = doc.version]_vars

\* C3 as amended: after a set_content that follows an undo() and whose text
\* differs from the content current at that call, every redo() before the
\* next undo() leaves content and version unchanged.
C3_ChangingSetContentDiscardsRedo ==
    [][(docOp'.op = "redo" /\ redoPhase = "set_new") =>
          /\ doc'.content = doc.content
          /\ doc'.version = doc.version]_vars

C3_Witness ==
    /\ docOp.op = "redo"
    /\ redoPhase = "set_new"
    /\ doc.history = <<"", "b">>
    /\ doc.content = "b"

\* C4: in every reachable Document state, version is an integer >= 1.
C4_VersionAtLeastOne == doc.version >= 1

\* C5: update_metadata(fields) raises and leaves the document unchanged when
\* fields carries an empty title or author; otherwise it merges fields into
\* metadata and increases version by exactly 1, refreshing updated_at, if and
\* only if the merged metadata differs from the metadata before the call.
\* (version and updated_at are the call's own bookkeeping: they hold the new
\* version and the time of the call, whatever fields carried for them.)
C5_UpdateMetadata ==
    [][docOp'.op = "update_metadata" =>
          LET fields == docOp'.arg
              merged == fields @@ doc.metadata
              kept == DOMAIN doc.metadata \ (DOMAIN fields \cup {"version", "updated_at"})
              emptyName == \E k \in {"title", "author"} :
                              k \in DOMAIN fields /\ fields[k] = ""
          IN /\ docOp'.raised <=> emptyName
             /\ docOp'.raised => doc' = doc
             /\ ~docOp'.raised =>
                  /\ \A k \in DOMAIN fields \ {"version", "updated_at"} :
                        doc'.metadata[k] = fields[k]
                  /\ \A k \in kept : doc'.metadata[k] = doc.metadata[k]
                  /\ doc'.content = doc.content
                  /\ doc'.history = doc.history
                  /\ doc'.history_index = doc.history_index
                  /\ IF merged # doc.metadata
                     THEN /\ doc'.version = doc.version + 1
                          /\ doc'.metadata["version"] = doc.version + 1
                          /\ doc'.metadata["updated_at"] = clock'
                     ELSE doc' = doc]_vars

C5_Witness ==
    /\ docOp.op = "update_metadata" /\ ~docOp.raised
    /\ docOp.arg = [title |-> "U"]
    /\ doc.metadata["title"] = "U"
    /\ doc.version = 2
    /\ doc.history_index = 0

\* C6: Document.from_dict(D.to_dict()) yields a document with the same
\* content and the same metadata entries as D.
C6_RoundTrip ==
    LET data == Obj(Document_to_dict(doc))
    IN /\ ~Document_from_dict_raises(data)
       /\ Document_from_dict(data, clock, clock).content = doc.content
       /\ Document_from_dict(data, clock, clock).metadata = doc.metadata

----------------------------------------------------------------------------
(* Template: claims *)

\* C7: for every valid Template T, Template.from_dict(T.to_dict())
\* reproduces T's name, category, metadata, styles and layouts exactly.
C7_TemplateRoundTrip ==
    \A a \in TemplateIds :
       LET T == tpl[a]
           data == Obj(Template_to_dict(heap, T))
       IN ~Template_validate_raises(T.name, T.category, T.metadata) =>
             /\ ~Template_from_dict_raises(data)
             /\ Template_from_dict(data).name = T.name
             /\ Template_from_dict(data).category = T.category
             /\ Template_from_dict(data).metadata = T.metadata
             /\ Template_from_dict(data).styles = StylesValue(heap, T)
             /\ Template_from_dict(data).layouts = T.layouts

C7_Witness ==
    /\ tplOp.op = "add_layout" /\ ~tplOp.raised /\ tplOp.a = "A"
    /\ Len(tpl["A"].layouts) = 2
    /\ tpl["A"].metadata["format"] = "html"
    /\ "custom" \in DOMAIN tpl["A"].styles["borders"]
    /\ "text" \in DOMAIN tpl["A"].styles

\* C8: after A.merge(B), every style category and name present in both A
\* and B holds B's values in A, and every style name present only in A is
\* still in A with its values unchanged.
C8_MergePrecedence ==
    [][tplOp'.op = "merge" =>
          LET a == tplOp'.a
              b == tplOp'.b
          IN \A ty \in DOMAIN tpl[a].styles : \A n \in DOMAIN tpl[a].styles[ty] :
                /\ ty \in DOMAIN tpl'[a].styles
                /\ n \in DOMAIN tpl'[a].styles[ty]
                /\ heap'[tpl'[a].styles[ty][n]].v =
                      IF ty \in DOMAIN tpl[b].styles /\ n \in DOMAIN tpl[b].styles[ty]
                      THEN heap[tpl[b].styles[ty][n]].v
                      ELSE heap[tpl[a].styles[ty][n]].v]_vars

C8_Witness ==
    /\ tplOp.op = "merge" /\ tplOp.a = "A" /\ tplOp.b = "B"
    /\ "custom" \in DOMAIN tpl["A"].styles["borders"]
    /\ "custom" \notin DOMAIN tpl["B"].styles["borders"]
    /\ "color" \in DOMAIN heap[tpl["B"].styles["borders"]["classic"]].v
    /\ heap[tpl["A"].styles["borders"]["classic"]].v
          = heap[tpl["B"].styles["borders"]["classic"]].v

\* C9: templates share no mutable style or layout mapping, also after a
\* merge: an add_style or add_layout on one template leaves the styles and
\* layouts of every other template unchanged.
C9_NoSharedMappings ==
    [][(tplOp'.op \in {"add_style", "add_layout"} /\ ~tplOp'.raised) =>
          \A u \in TemplateIds \ {tplOp'.a} :
             /\ StylesValue(heap', tpl'[u]) = StylesValue(heap, tpl[u])
             /\ tpl'[u].layouts = tpl[u].layouts]_vars

----------------------------------------------------------------------------
(* TemplateManager: claims *)

\* C10: save_template(T) returns false and creates or modifies no file
\* whenever T.category is not in get_categories() at the time of the call;
\* so every template file save_template wrote belongs to a category that
\* was registered (or is the seeded "general") before the save.
C10_CategoryGate ==
    /\ [][(mgrOp'.op = "save_template" /\ mgrOp'.arg.category \notin categories) =>
             /\ mgrOp'.result = "False"
             /\ files' = files]_vars
    /\ [](\A n \in TemplateNames :
             files[n].kind = "json" => files[n].data.category \in categories)

C10_Witness ==
    /\ mgrOp.op = "save_template"
    /\ mgrOp.arg.name = "Guide"
    /\ mgrOp.arg.category = "drama"
    /\ "drama" \notin categories
    /\ mgrOp.result = "False"
    /\ files["Guide"].kind = "json"
    /\ files["Guide"].data.category = "fiction"

\* C11: for every template whose category is registered with the manager,
\* save_template returns True, and a get_template of its name that follows
\* returns a template with the same name, category, metadata, styles and
\* layouts.  Stated for a valid template and a working disk.
C11_SaveThenGet ==
    /\ [][(/\ mgrOp'.op = "save_template"
           /\ mgrOp'.io = "ok"
           /\ mgrOp'.arg.category \in categories
           /\ ~Template_validate_raises(mgrOp'.arg.name, mgrOp'.arg.category,
                                        mgrOp'.arg.metadata))
             => mgrOp'.result = "True"]_vars
    /\ [][(/\ mgrOp.op = "save_template"
           /\ mgrOp.result = "True"
           /\ mgrOp'.op = "get_template"
           /\ mgrOp'.arg = mgrOp.arg.name)
             => /\ mgrOp'.result = "template"
                /\ mgrOp'.value = TemplateJson(TemplateValue_to_dict(mgrOp.arg)).v]_vars

\* C15: list_templates and search_templates never raise because of a template
\* file that fails to parse or has the wrong shape: they return a list, and
\* the unfiltered listing holds the name of every file written by
\* save_template.
C15_ListAndSearchSkipMalformed ==
    mgrOp.op \in {"list_templates", "search_templates"} =>
        /\ mgrOp.result = "list"
        /\ (mgrOp.op = "list_templates" /\ mgrOp.arg = NoCategory) =>
              \A n \in Globbed(files) :
                  files[n].kind = "json" => Str(files[n].data.name) \in mgrOp.value

\* C16: get_template(name) and load_template(name) never propagate an
\* exception for a missing or malformed file: the caller receives a
\* template or None.
C16_GetTemplateNeverRaises ==
    mgrOp.op \in {"get_template", "load_template"} =>
        mgrOp.result \in {"template", "None"}

----------------------------------------------------------------------------
(* _sanitize_filename: claims *)

\* C13: filename sanitization is idempotent: for every name that
\* _sanitize_filename accepts, sanitizing its result again succeeds and
\* returns the same string.
C13_SanitizeIdempotent ==
    sanAgain # Pending => (~sanAgain.raised /\ sanAgain.value = sanOut.value)

(* A name beyond the length limit was cut and its result sanitized again *)
C13_Witness ==
    /\ sanAgain # Pending
    /\ Len(sanIn) > MAX_FILENAME_LENGTH - 6
    /\ Len(sanOut.value) < MAX_FILENAME_LENGTH - 6
    /\ \E i \in DOMAIN sanIn : sanIn[i] = "_"
    /\ sanAgain.value = sanOut.value

(* The characters a shell gives a meaning to *)
ShellSpecialChars ==
    {"$", ";", "&", "|", "*", "?", "<", ">", "!", "#", "~"}

\* C14: _sanitize_filename either raises ValueError or returns a non-empty
\* string with no path separator, control character, whitespace or
\* shell-special character and no run of two or more underscores, that is
\* not a reserved device name and that, with the .json extension, stays
\* below the 255-character filename limit.
C14_SanitizedNameIsSafe ==
    (sanOut # Pending /\ ~sanOut.raised) =>
        /\ sanOut.value # <<>>
        /\ \A i \in DOMAIN sanOut.value :
              sanOut.value[i] \notin {"/", "\\", "\t"} \cup Whitespace \cup ShellSpecialChars
        /\ \A i \in 1..(Len(sanOut.value) - 1) :
              ~(sanOut.value[i] = "_" /\ sanOut.value[i + 1] = "_")
        /\ Upper(sanOut.value) \notin RESERVED_NAMES
        /\ Len(sanOut.value) + Len(<<".", "j", "s", "o", "n">>) < MAX_FILENAME_LENGTH

----------------------------------------------------------------------------
(* The sanitizing TemplateManager: claims *)

\* C12: lookup and deletion use the same key as saving: after a successful
\* save_template of a template, get_template of its name returns the saved
\* template and delete_template of its name returns True and removes the
\* file save_template wrote; delete_template returns True exactly when it
\* removed a file.
C12_SameKey ==
    /\ [][(/\ smOp.op = "save_template"
           /\ smOp.result = "path"
           /\ smOp'.op = "get_template"
           /\ smOp'.arg = smOp.arg.name)
             => /\ smOp'.result = "template"
                /\ smOp'.value = TemplateValue_to_dict(smOp.arg)]_vars
    /\ [][(/\ smOp.op = "save_template"
           /\ smOp.result = "path"
           /\ smOp'.op = "delete_template"
           /\ smOp'.arg = smOp.arg.name)
             => /\ smOp'.result = "True"
                /\ smOp.value \notin DOMAIN smFiles']_vars
    /\ [][smOp'.op = "delete_template"
             => (smOp'.result = "True" <=> DOMAIN smFiles' # DOMAIN smFiles)]_vars

----------------------------------------------------------------------------
(* Document.load: claims *)

\* C17: Document.load(path) returns None rather than raising for every
\* missing file and every malformed content; it returns a document or None.
C17_LoadNeverRaises ==
    ldOut # NotLoaded => ldOut.result \in {"document", "None"}

----------------------------------------------------------------------------
(* Template.validate: claims *)

(* The invariants of a Template: a valid format, tags a sequence of        *)
(* strings, styles two levels of mappings down to the property mappings,   *)
(* every layout a non-empty mapping                                        *)
FormatInvariant(t) ==
    /\ t.metadata.t = "obj"
    /\ "format" \in DOMAIN t.metadata.v
    /\ t.metadata.v["format"].t = "str"
    /\ t.metadata.v["format"].v \in VALID_FORMATS

TagsInvariant(t) ==
    LET tags == Get(t.metadata.v, "tags", Arr(<<>>))
    IN tags.t = "arr" /\ \A i \in DOMAIN tags.v : tags.v[i].t = "str"

StylesInvariant(t) ==
    /\ t.styles.t = "obj"
    /\ \A c \in DOMAIN t.styles.v :
          /\ t.styles.v[c].t = "obj"
          /\ \A n \in DOMAIN t.styles.v[c].v : t.styles.v[c].v[n].t = "obj"

LayoutsInvariant(t) ==
    /\ t.layouts.t = "arr"
    /\ \A i \in DOMAIN t.layouts.v :
          t.layouts.v[i].t = "obj" /\ DOMAIN t.layouts.v[i].v # {}

\* C18: Template.validate() succeeds only if every Template invariant
\* holds: a violation of the format, tags, styles or layouts invariant makes
\* validate() fail.
C18_ValidateChecksInvariants ==
    tvOut = "True" =>
        /\ FormatInvariant(tvTemplate)
        /\ TagsInvariant(tvTemplate)
        /\ StylesInvariant(tvTemplate)
        /\ LayoutsInvariant(tvTemplate)

----------------------------------------------------------------------------
(* Template.render: claims *)

(* The pieces of a rendered string at which a style attribute ends *)
StyleEnds(out) == {i \in DOMAIN out : out[i] = "'>\n"}

----------------------------------------------------------------------------
(* Editor: claims *)

\* C20: save_document called while there is no current document raises an
\* InvalidState error and writes no file; it does not return False.
C20_SaveWithoutDocumentRaises ==
    [][(edOp'.op = "save_document" /\ edCurrent = <<>>)
          => (edOp'.result = "InvalidState" /\ edFiles' = edFiles)]_vars

\* C21: load_document returns the loaded document and makes it current on
\* success; for a missing or malformed file it returns None without raising
\* and leaves the previous current document in place.
C21_LoadDocument ==
    [][edOp'.op = "load_document"
          => LET file == edFiles[edOp'.arg]
                 failed == \/ file.kind # "json"
                           \/ EditorDocument_from_dict_raises(file.data)
             IN IF failed
                THEN edOp'.result = "None" /\ edCurrent' = edCurrent
                ELSE /\ edOp'.result = "document"
                     /\ edCurrent' = <<EditorDocument_from_dict(file.data)>>]_vars

----------------------------------------------------------------------------
(* TemplateManager (template.py): failed saves *)

\* C22: a failed save never corrupts persisted state: whenever save_template
\* fails (returns False or raises), the file previously stored at the target
\* path holds exactly the content it held before the call.
C22_FailedSaveKeepsFile ==
    [][(/\ mgrOp'.op = "save_template"
        /\ mgrOp'.result # "True"
        /\ mgrOp'.arg.name \in DOMAIN files
        /\ files[mgrOp'.arg.name].kind # "absent")
          => files'[mgrOp'.arg.name] = files[mgrOp'.arg.name]]_vars

----------------------------------------------------------------------------
(* StorageManager: claims *)

(* A path inside root_dir *)
Inside(path) == Len(path) >= Len(RootDir) /\ SubSeq(path, 1, Len(RootDir)) = RootDir

(* The methods the confinement is stated for *)
ConfinedOps == {"save_file", "load_file", "delete_file", "list_directory"}

\* C23: all StorageManager paths are confined to root_dir: for every
\* relative_path, parent-directory components and absolute paths included,
\* save_file, load_file, delete_file and list_directory read, write or remove
\* only files inside root_dir, and leave everything outside it as it was.
C23_Confined ==
    /\ [](stOp.op \in ConfinedOps => \A path \in stOp.touched : Inside(path))
    /\ [][stOp'.op \in ConfinedOps
             => \A path \in FsPaths : ~Inside(path) => stFs'[path] = stFs[path]]_vars

----------------------------------------------------------------------------
(* EditorComponent: claims *)

\* C24: EditorComponent has linear undo/redo.  An undo with a non-empty undo
\* stack restores the content that was current before the most recent
\* not-yet-undone change (the top of the undo stack, and the content before
\* the call when it directly follows that change); a redo directly after it
\* restores the content that was current before that undo; every set_content
\* empties the redo stack; undo or redo on an empty stack changes nothing.
C24_LinearUndoRedo ==
    [][/\ cmpOp'.op = "undo" =>
            IF cmp.undo_stack = <<>> THEN cmp' = cmp
            ELSE /\ cmp'.content = cmp.undo_stack[Len(cmp.undo_stack)]
                 /\ cmp'.undo_stack = SubSeq(cmp.undo_stack, 1, Len(cmp.undo_stack) - 1)
                 /\ cmp'.redo_stack = Append(cmp.redo_stack, cmp.content)
                 /\ cmpOp.op \in {"set_content", "redo"} /\ cmpOp.applied
                        => cmp'.content = cmpOp.before
       /\ cmpOp'.op = "redo" =>
            IF cmp.redo_stack = <<>> THEN cmp' = cmp
            ELSE /\ cmp'.content = cmp.redo_stack[Len(cmp.redo_stack)]
                 /\ cmp'.redo_stack = SubSeq(cmp.redo_stack, 1, Len(cmp.redo_stack) - 1)
                 /\ cmp'.undo_stack = Append(cmp.undo_stack, cmp.content)
                 /\ cmpOp.op = "undo" /\ cmpOp.applied => cmp'.content = cmpOp.before
       /\ cmpOp'.op = "set_content" => cmp'.redo_stack = <<>>]_vars

(* A redo directly after an undo, with an earlier undo still to redo and an *)
(* earlier change still to undo                                            *)
C24_Witness ==
    /\ cmpOp.op = "redo" /\ cmpOp.applied /\ cmpOp.prev = "undo"
    /\ cmp.content # cmpOp.before
    /\ cmp.undo_stack # <<>> /\ cmp.redo_stack # <<>>

\* C27: after any sequence of set_content, move_cursor, select_text,
\* clear_selection, undo and redo calls, the cursor position lies in
\* [0, len(content)] and, whenever a selection is set, both selection bounds
\* lie in [0, len(content)].
C27_CursorAndSelectionInBounds ==
    /\ cmp.cursor_position \in 0..Len(cmp.content)
    /\ cmp.selection_start # <<>> => cmp.selection_start[1] \in 0..Len(cmp.content)
    /\ cmp.selection_end # <<>> => cmp.selection_end[1] \in 0..Len(cmp.content)

----------------------------------------------------------------------------
(* The chapter Editor: claims *)

\* C25: whenever the loaded book has at least one chapter,
\* current_chapter_index is a valid chapter index,
\* 0 <= current_chapter_index < number of chapters, after any sequence of
\* load_book, next_chapter, previous_chapter, add_chapter, delete_chapter and
\* move_chapter calls.
C25_ChapterIndexValid ==
    (ce.current_book # <<>> /\ Len(ce.current_book[1]) >= 1)
        => ce.current_chapter_index \in 0..(Len(ce.current_book[1]) - 1)

(* The chapters after an undo or redo that acts on the chapter the stack   *)
(* entry was made for: that chapter has the entry's content, wherever it   *)
(* is now, and every other chapter is as it was                            *)
ActsOnEdited(chapters, entry) ==
    [i \in DOMAIN chapters |->
        IF chapters[i].id = entry.edited
        THEN [chapters[i] EXCEPT !.content = entry.content]
        ELSE chapters[i]]

\* C26: undo() and redo() never raise and always act on the chapter that the
\* undone or redone update_content edited, restoring that chapter's content
\* as it was before (or after) that edit, even when chapters were deleted,
\* added or moved between the edit and the undo/redo.
C26_UndoRedoActOnEditedChapter ==
    [][/\ ceOp'.op \in {"undo", "redo"} => ceOp'.result = "None"
       /\ (ceOp'.op = "undo" /\ ce.current_book # <<>> /\ ce.undo_stack # <<>>)
             => ce'.current_book[1] = ActsOnEdited(ce.current_book[1], Top(ce.undo_stack))
       /\ (ceOp'.op = "redo" /\ ce.current_book # <<>> /\ ce.redo_stack # <<>>)
             => ce'.current_book[1] = ActsOnEdited(ce.current_book[1], Top(ce.redo_stack))]_vars

----------------------------------------------------------------------------
(* DocumentManager: claims *)

\* C28: list_documents returns exactly one entry per document id that has
\* been saved and not deleted, after any sequence of save_document,
\* update_document, delete_document, backup_document and restore_document
\* calls; taking a backup does not add an entry to the listing.
C28_ListIsSavedDocuments ==
    dmOp.op = "list_documents"
        => /\ {entry.id : entry \in dmOp.value} = dmSaved
           /\ Cardinality(dmOp.value) = Cardinality(dmSaved)

----------------------------------------------------------------------------
(* Document: representation invariant *)

\* C29: in every Document state reachable through the constructor,
\* from_dict, set_content, update_metadata, undo and redo, the history is
\* non-empty, the history cursor is a valid index into it, the content equals
\* the history snapshot at the cursor, metadata["version"] equals the version
\* attribute, and version is at least cursor index + 1.
C29_DocumentInvariant ==
    /\ doc.history # <<>>
    /\ doc.history_index \in 0..(Len(doc.history) - 1)
    /\ doc.content = doc.history[doc.history_index + 1]
    /\ doc.metadata["version"] = doc.version
    /\ doc.version >= doc.history_index + 1

----------------------------------------------------------------------------
(* Editor: new documents *)

\* C30: new_document(title) changes only the current-document reference and
\* the file of the new document: the stored content of every previously
\* persisted document is unchanged, a document already saved under the same
\* title included.
C30_NewDocumentKeepsStoredDocuments ==
    [][edOp'.op = "new_document"
          => \A title \in EditorTitles :
                 edFiles[title].kind = "json"
                     => /\ edFiles'[title].kind = "json"
                        /\ edFiles'[title].data.content = edFiles[title].data.content
                        /\ edFiles'[title].data.revisions = edFiles[title].data.revisions]_vars

============================================================================
